---- MODULE Spec2Model ----
(***************************************************************************)
(* Pharma-Guard: the variant-to-risk pipeline.                             *)
(*   backend/parser/vcfParser.js        parseVCF, parseINFO, validateVCF   *)
(*   backend/services/llmService.js     phenotype mapper (normalizeDiplo-  *)
(*                                      type, determineDiplotype,          *)
(*                                      determinePhenotypeByGene)          *)
(*   unnamed/part_001                   risk engine (calculateRisk, ...)   *)
(*   unnamed/part_000                   POST /analyze                      *)
(* JavaScript strings are TLA+ strings; a character is a string of length  *)
(* one.  Numbers that are not integers are scaled and the scale is stated  *)
(* where they are defined.                                                 *)
(***************************************************************************)
EXTENDS Integers, Sequences, FiniteSets, TLC

(***************************************************************************)
(* JavaScript values and strings                                           *)
(***************************************************************************)

\* the value undefined (a missing argument, a missing property)
Undefined == "<undefined>"

\* a member inherited from Object.prototype (a function or an object): it is
\* truthy, it is not undefined, and it has none of the fields the code reads
InheritedMember == "<Object.prototype member>"

\* the property names every object literal inherits from Object.prototype
ObjectPrototypeKeys ==
  {"constructor", "toString", "valueOf", "hasOwnProperty", "isPrototypeOf",
   "propertyIsEnumerable", "toLocaleString", "__proto__"}

\* obj[key] !== undefined for an object literal obj (a function on its own
\* keys): an own property or an inherited one
HasProp(obj, key) == key \in DOMAIN obj \/ key \in ObjectPrototypeKeys

\* obj[key] for an object literal obj whose own values are strings
GetProp(obj, key) ==
  IF key \in DOMAIN obj THEN obj[key]
  ELSE IF key \in ObjectPrototypeKeys THEN InheritedMember
  ELSE Undefined

CharAt(s, i) == SubSeq(s, i, i)

LowerLetters == "abcdefghijklmnopqrstuvwxyz"
UpperLetters == "ABCDEFGHIJKLMNOPQRSTUVWXYZ"
DigitChars == "0123456789"

\* index of character c in string s, 0 when absent
IndexIn(c, s) ==
  IF \E i \in 1..Len(s) : CharAt(s, i) = c
  THEN CHOOSE i \in 1..Len(s) : CharAt(s, i) = c
  ELSE 0

CharsOf(s) == {CharAt(s, i) : i \in 1..Len(s)}

\* the tables below are constants: position of a character in its alphabet
DigitValues == [c \in CharsOf(DigitChars) |-> IndexIn(c, DigitChars) - 1]
UpperOf == [c \in CharsOf(LowerLetters) |-> CharAt(UpperLetters, IndexIn(c, LowerLetters))]
LowerOf == [c \in CharsOf(UpperLetters) |-> CharAt(LowerLetters, IndexIn(c, UpperLetters))]

IsDigit(c) == c \in DOMAIN DigitValues
DigitVal(c) == DigitValues[c]

ToUpperChar(c) == IF c \in DOMAIN UpperOf THEN UpperOf[c] ELSE c

ToLowerChar(c) == IF c \in DOMAIN LowerOf THEN LowerOf[c] ELSE c

RECURSIVE toUpperCase(_)
toUpperCase(s) ==
  IF s = "" THEN "" ELSE ToUpperChar(CharAt(s, 1)) \o toUpperCase(Tail(s))

RECURSIVE toLowerCase(_)
toLowerCase(s) ==
  IF s = "" THEN "" ELSE ToLowerChar(CharAt(s, 1)) \o toLowerCase(Tail(s))

IsSpace(c) == c \in {" ", "\t", "\r", "\n"}

RECURSIVE trimStart(_)
trimStart(s) ==
  IF s # "" /\ IsSpace(CharAt(s, 1)) THEN trimStart(Tail(s)) ELSE s

RECURSIVE trimEnd(_)
trimEnd(s) ==
  IF s # "" /\ IsSpace(CharAt(s, Len(s))) THEN trimEnd(SubSeq(s, 1, Len(s) - 1)) ELSE s

trim(s) == trimEnd(trimStart(s))

startsWith(s, p) == Len(s) >= Len(p) /\ SubSeq(s, 1, Len(p)) = p

\* s.split(sep) for a one-character separator: the text before the first
\* separator, between each two, and after the last (always at least one part)
split(s, sep) ==
  LET at == {i \in 1..Len(s) : CharAt(s, i) = sep}
      n == Cardinality(at)
      \* position of the k-th separator, with the two ends of s as sentinels
      pos(k) == IF k = 0 THEN 0
                ELSE IF k = n + 1 THEN Len(s) + 1
                ELSE CHOOSE i \in at : Cardinality({j \in at : j < i}) = k - 1
  IN  [k \in 1..(n + 1) |-> SubSeq(s, pos(k - 1) + 1, pos(k) - 1)]

\* s.replace(/[^0-9]/g, '')
RECURSIVE digitsOf(_)
digitsOf(s) ==
  IF s = "" THEN ""
  ELSE (IF IsDigit(CharAt(s, 1)) THEN CharAt(s, 1) ELSE "") \o digitsOf(Tail(s))

\* parseInt(d) || 0 for a string d of decimal digits (parseInt('') is NaN)
RECURSIVE parseIntAcc(_, _)
parseIntAcc(d, acc) ==
  IF d = "" THEN acc ELSE parseIntAcc(Tail(d), 10 * acc + DigitVal(CharAt(d, 1)))

parseIntOrZero(d) == parseIntAcc(d, 0)

(***************************************************************************)
(* String.prototype.localeCompare under the root collation: the primary    *)
(* weights of the two strings are compared first (white space, then        *)
(* punctuation, then symbols, then digits, then letters without case), and *)
(* only when they are all equal does case decide, lower case first.        *)
(***************************************************************************)
CollationOrder == " _-,;:.*/#+=0123456789abcdefghijklmnopqrstuvwxyz"

PrimaryWeights == [c \in CharsOf(CollationOrder) |-> IndexIn(c, CollationOrder)]

PrimaryWeight(c) == PrimaryWeights[ToLowerChar(c)]

TertiaryWeight(c) == IF c \in DOMAIN LowerOf THEN 1 ELSE 0

RECURSIVE comparePrimary(_, _)
comparePrimary(a, b) ==
  IF a = "" THEN (IF b = "" THEN 0 ELSE -1)
  ELSE IF b = "" THEN 1
  ELSE IF PrimaryWeight(CharAt(a, 1)) < PrimaryWeight(CharAt(b, 1)) THEN -1
  ELSE IF PrimaryWeight(CharAt(a, 1)) > PrimaryWeight(CharAt(b, 1)) THEN 1
  ELSE comparePrimary(Tail(a), Tail(b))

RECURSIVE compareTertiary(_, _)
compareTertiary(a, b) ==
  IF a = "" \/ b = "" THEN 0
  ELSE IF TertiaryWeight(CharAt(a, 1)) < TertiaryWeight(CharAt(b, 1)) THEN -1
  ELSE IF TertiaryWeight(CharAt(a, 1)) > TertiaryWeight(CharAt(b, 1)) THEN 1
  ELSE compareTertiary(Tail(a), Tail(b))

localeCompare(a, b) ==
  IF comparePrimary(a, b) # 0 THEN comparePrimary(a, b) ELSE compareTertiary(a, b)

(***************************************************************************)
(* Array.prototype.sort(cmp): a stable sort, here by insertion.  cmp is    *)
(* the comparator both normalizeDiplotype and determineDiplotype pass.     *)
(***************************************************************************)
alleleNumber(a) == parseIntOrZero(digitsOf(a))

\* a mutant: the comparator without its tie-break on the full label
compareAllelesNumberOnly(a, b) == alleleNumber(a) - alleleNumber(b)

compareAlleles(a, b) ==
  IF alleleNumber(a) # alleleNumber(b) THEN alleleNumber(a) - alleleNumber(b)
  ELSE localeCompare(a, b)

RECURSIVE insertSorted(_, _)
insertSorted(x, sorted) ==
  IF sorted = <<>> THEN <<x>>
  ELSE IF compareAlleles(Head(sorted), x) <= 0 THEN <<Head(sorted)>> \o insertSorted(x, Tail(sorted))
  ELSE <<x>> \o sorted

RECURSIVE sortAlleles(_)
sortAlleles(arr) ==
  IF arr = <<>> THEN <<>>
  ELSE insertSorted(arr[Len(arr)], sortAlleles(SubSeq(arr, 1, Len(arr) - 1)))

(***************************************************************************)
(* Phenotype mapper: allele function scores and diplotype tables           *)
(***************************************************************************)

\* activity scores in half units (the source's 1 is 2 here, 0.5 is 1)
SLCO1B1_ALLELE_FUNCTION ==
  ("*1" :> 2) @@ ("*1a" :> 2) @@ ("*1A" :> 2) @@ ("*1b" :> 2) @@ ("*1B" :> 2) @@
  ("*5" :> 0) @@ ("*15" :> 0) @@ ("*17" :> 0)

DPYD_ALLELE_FUNCTION ==
  ("*1" :> 2) @@ ("*2A" :> 0) @@ ("*5" :> 1) @@ ("*13" :> 1)

\* a mutant: *2/*17 classified by adding a rapid and a poor allele
CYP2C19_PHENOTYPE_MAP_Additive ==
  ("*1/*1" :> "NM") @@ ("*1/*17" :> "RM") @@ ("*17/*17" :> "UM") @@
  ("*1/*2" :> "IM") @@ ("*1/*3" :> "IM") @@ ("*2/*17" :> "RM") @@
  ("*3/*17" :> "IM") @@ ("*2/*2" :> "PM") @@ ("*2/*3" :> "PM") @@
  ("*3/*3" :> "PM")

CYP2C19_PHENOTYPE_MAP ==
  ("*1/*1" :> "NM") @@ ("*1/*17" :> "RM") @@ ("*17/*17" :> "UM") @@
  ("*1/*2" :> "IM") @@ ("*1/*3" :> "IM") @@ ("*2/*17" :> "IM") @@
  ("*3/*17" :> "IM") @@ ("*2/*2" :> "PM") @@ ("*2/*3" :> "PM") @@
  ("*3/*3" :> "PM")

CYP2D6_PHENOTYPE_MAP ==
  ("*1/*1" :> "NM") @@ ("*1/*2" :> "NM") @@ ("*2/*2" :> "NM") @@
  ("*1/*4" :> "IM") @@ ("*2/*4" :> "IM") @@ ("*1/*5" :> "IM") @@
  ("*4/*4" :> "PM") @@ ("*4/*5" :> "PM") @@ ("*5/*5" :> "PM") @@
  ("*1/*2xN" :> "UM") @@ ("*2xN/*2xN" :> "UM") @@ ("*1/*1xN" :> "UM")

CYP2C9_PHENOTYPE_MAP ==
  ("*1/*1" :> "NM") @@ ("*1/*2" :> "IM") @@ ("*1/*3" :> "IM") @@
  ("*2/*2" :> "IM") @@ ("*2/*3" :> "PM") @@ ("*3/*3" :> "PM")

\* a mutant: the entry *1B/*5 says PM
SLCO1B1_PHENOTYPE_MAP_PoorStar1B5 ==
  ("*1/*1" :> "NM") @@ ("*1a/*1a" :> "NM") @@ ("*1a/*1b" :> "NM") @@
  ("*1b/*1b" :> "NM") @@ ("*1B/*1B" :> "NM") @@ ("*1/*1B" :> "NM") @@
  ("*1/*5" :> "IM") @@ ("*1a/*5" :> "IM") @@ ("*1b/*5" :> "IM") @@
  ("*1B/*5" :> "PM") @@ ("*1a/*15" :> "IM") @@ ("*1b/*15" :> "IM") @@
  ("*1B/*15" :> "IM") @@ ("*5/*5" :> "PM") @@ ("*15/*15" :> "PM") @@
  ("*5/*15" :> "PM")

SLCO1B1_PHENOTYPE_MAP ==
  ("*1/*1" :> "NM") @@ ("*1a/*1a" :> "NM") @@ ("*1a/*1b" :> "NM") @@
  ("*1b/*1b" :> "NM") @@ ("*1B/*1B" :> "NM") @@ ("*1/*1B" :> "NM") @@
  ("*1/*5" :> "IM") @@ ("*1a/*5" :> "IM") @@ ("*1b/*5" :> "IM") @@
  ("*1B/*5" :> "IM") @@ ("*1a/*15" :> "IM") @@ ("*1b/*15" :> "IM") @@
  ("*1B/*15" :> "IM") @@ ("*5/*5" :> "PM") @@ ("*15/*15" :> "PM") @@
  ("*5/*15" :> "PM")

TPMT_PHENOTYPE_MAP ==
  ("*1/*1" :> "NM") @@ ("*1/*2" :> "IM") @@ ("*1/*3A" :> "IM") @@
  ("*1/*3B" :> "IM") @@ ("*1/*3C" :> "IM") @@ ("*2/*2" :> "PM") @@
  ("*3A/*3A" :> "PM") @@ ("*3B/*3B" :> "PM") @@ ("*3C/*3C" :> "PM") @@
  ("*2/*3A" :> "PM") @@ ("*3B/*3C" :> "PM")

DPYD_PHENOTYPE_MAP ==
  ("*1/*1" :> "NM") @@ ("Normal/Normal" :> "NM") @@ ("*1/*2A" :> "PM") @@
  ("*2A/*2A" :> "PM") @@ ("*1/*5" :> "IM") @@ ("*5/*5" :> "PM") @@
  ("*2A/*5" :> "PM") @@ ("*1/*13" :> "IM") @@ ("*1/*rs67376798" :> "IM") @@
  ("Decreased/Normal" :> "IM") @@ ("Decreased/Decreased" :> "PM") @@
  ("NoFunction/Normal" :> "PM")

GENE_PHENOTYPE_MAPS ==
  ("CYP2C19" :> CYP2C19_PHENOTYPE_MAP) @@ ("CYP2D6" :> CYP2D6_PHENOTYPE_MAP) @@
  ("CYP2C9" :> CYP2C9_PHENOTYPE_MAP) @@ ("SLCO1B1" :> SLCO1B1_PHENOTYPE_MAP) @@
  ("TPMT" :> TPMT_PHENOTYPE_MAP) @@ ("DPYD" :> DPYD_PHENOTYPE_MAP)

\* the classification both activity-score functions share.  score1 + score2
\* is a number only when both scores are numbers; with an inherited member
\* on either side the sum is a string that is not numeric, every comparison
\* with it is false, and the function falls to its last return.
\* null is Undefined here: the caller only tests the result for truthiness.
activityPhenotype(table, allele1, allele2) ==
  IF ~HasProp(table, allele1) \/ ~HasProp(table, allele2) THEN Undefined
  ELSE IF allele1 \notin DOMAIN table \/ allele2 \notin DOMAIN table THEN "PM"
  ELSE IF table[allele1] + table[allele2] >= 4 THEN "NM"
  ELSE IF table[allele1] + table[allele2] >= 2 THEN "IM"
  ELSE "PM"

calculateSLCO1B1Phenotype(allele1, allele2) ==
  activityPhenotype(SLCO1B1_ALLELE_FUNCTION, allele1, allele2)

calculateDPYDPhenotype(allele1, allele2) ==
  activityPhenotype(DPYD_ALLELE_FUNCTION, allele1, allele2)

\* the parts of a diplotype, each trimmed
diplotypeParts(diplotype) ==
  [i \in 1..Len(split(diplotype, "/")) |-> trim(split(diplotype, "/")[i])]

normalizeDiplotype(diplotype) ==
  IF diplotype = Undefined \/ diplotype = "" \/ diplotype = "Unknown" THEN "Unknown"
  ELSE IF Len(diplotypeParts(diplotype)) # 2 THEN diplotype
  ELSE LET sortedParts == sortAlleles(diplotypeParts(diplotype))
       IN  sortedParts[1] \o "/" \o sortedParts[2]

\* the star-allele labels the resolver counts: s && s.startsWith('*')
starAllelesOf(variants) ==
  SelectSeq([i \in 1..Len(variants) |-> variants[i].star_allele],
            LAMBDA s : s # "" /\ s # Undefined /\ startsWith(s, "*"))

\* alleleCounts[allele]
alleleCount(starAlleles, allele) ==
  Cardinality({i \in 1..Len(starAlleles) : starAlleles[i] = allele})

\* Object.keys(alleleCounts): the distinct labels in order of first occurrence
RECURSIVE firstOccurrences(_, _)
firstOccurrences(starAlleles, seen) ==
  IF starAlleles = <<>> THEN <<>>
  ELSE IF Head(starAlleles) \in seen THEN firstOccurrences(Tail(starAlleles), seen)
  ELSE <<Head(starAlleles)>> \o firstOccurrences(Tail(starAlleles), seen \cup {Head(starAlleles)})

\* a mutant: a single label is taken as homozygous without counting it
chosenAllelesUncounted(starAlleles) ==
  LET uniqueAlleles == sortAlleles(firstOccurrences(starAlleles, {}))
  IN  IF Len(uniqueAlleles) = 1 THEN <<uniqueAlleles[1], uniqueAlleles[1]>>
      ELSE <<uniqueAlleles[1], uniqueAlleles[2]>>

\* a mutant: of several labels, the two that occur most often are taken
chosenAllelesMostFrequent(starAlleles) ==
  LET uniqueAlleles == sortAlleles(firstOccurrences(starAlleles, {}))
      moreFrequent(a, b) == alleleCount(starAlleles, b) - alleleCount(starAlleles, a)
      byCount == IF Len(uniqueAlleles) < 2 THEN uniqueAlleles
                 ELSE LET first == CHOOSE i \in 1..Len(uniqueAlleles) :
                                     \A j \in 1..Len(uniqueAlleles) :
                                       \/ moreFrequent(uniqueAlleles[i], uniqueAlleles[j]) < 0
                                       \/ moreFrequent(uniqueAlleles[i], uniqueAlleles[j]) = 0 /\ i <= j
                          others == SelectSeq(uniqueAlleles, LAMBDA a : a # uniqueAlleles[first])
                          second == CHOOSE i \in 1..Len(others) :
                                      \A j \in 1..Len(others) :
                                        \/ moreFrequent(others[i], others[j]) < 0
                                        \/ moreFrequent(others[i], others[j]) = 0 /\ i <= j
                      IN  <<uniqueAlleles[first], others[second]>>
  IN  IF Len(uniqueAlleles) = 1
      THEN IF alleleCount(starAlleles, uniqueAlleles[1]) >= 2
           THEN <<uniqueAlleles[1], uniqueAlleles[1]>>
           ELSE IF uniqueAlleles[1] = "*1" THEN <<"*1", "*1">>
           ELSE <<"*1", uniqueAlleles[1]>>
      ELSE byCount

\* the pair [allele1, allele2] before the final sort
chosenAlleles(starAlleles) ==
  LET uniqueAlleles == sortAlleles(firstOccurrences(starAlleles, {}))
  IN  IF Len(uniqueAlleles) = 1
      THEN IF alleleCount(starAlleles, uniqueAlleles[1]) >= 2
           THEN <<uniqueAlleles[1], uniqueAlleles[1]>>
           ELSE IF uniqueAlleles[1] = "*1" THEN <<"*1", "*1">>
           ELSE <<"*1", uniqueAlleles[1]>>
      ELSE <<uniqueAlleles[1], uniqueAlleles[2]>>

\* the two sides of the returned diplotype, in the order they are joined
diplotypeSides(variants) ==
  IF Len(variants) = 0 \/ Len(starAllelesOf(variants)) = 0 THEN <<"*1", "*1">>
  ELSE sortAlleles(chosenAlleles(starAllelesOf(variants)))

determineDiplotype(variants) ==
  diplotypeSides(variants)[1] \o "/" \o diplotypeSides(variants)[2]

\* a mutant: the table is read with the diplotype as given, in one order only
determinePhenotypeByGeneAsGiven(gene, diplotype) ==
  IF gene = Undefined \/ gene = "" \/ diplotype = Undefined \/ diplotype = ""
     \/ diplotype = "Unknown"
  THEN "Unknown"
  ELSE LET normalizedGene == trim(toUpperCase(gene))
           phenotypeMap == GENE_PHENOTYPE_MAPS[normalizedGene]
           parts == split(diplotype, "/")
       IN  IF normalizedGene \notin DOMAIN GENE_PHENOTYPE_MAPS THEN "Unknown"
           ELSE IF GetProp(phenotypeMap, diplotype) # Undefined
                THEN GetProp(phenotypeMap, diplotype)
           ELSE IF Len(parts) = 2 /\ normalizedGene = "SLCO1B1"
                   /\ calculateSLCO1B1Phenotype(parts[1], parts[2]) # Undefined
                THEN calculateSLCO1B1Phenotype(parts[1], parts[2])
           ELSE IF Len(parts) = 2 /\ normalizedGene = "DPYD"
                   /\ calculateDPYDPhenotype(parts[1], parts[2]) # Undefined
                THEN calculateDPYDPhenotype(parts[1], parts[2])
           ELSE "Unknown"

determinePhenotypeByGene(gene, diplotype) ==
  IF gene = Undefined \/ gene = "" \/ diplotype = Undefined \/ diplotype = ""
     \/ diplotype = "Unknown"
  THEN "Unknown"
  ELSE LET normalizedGene == trim(toUpperCase(gene))
           normalizedDiplotype == normalizeDiplotype(diplotype)
           phenotypeMap == GENE_PHENOTYPE_MAPS[normalizedGene]
           parts == split(normalizedDiplotype, "/")
           reverseDiplotype == parts[2] \o "/" \o parts[1]
       IN  IF normalizedGene \notin DOMAIN GENE_PHENOTYPE_MAPS THEN "Unknown"
           ELSE IF GetProp(phenotypeMap, normalizedDiplotype) # Undefined
                THEN GetProp(phenotypeMap, normalizedDiplotype)
           ELSE IF Len(parts) = 2 /\ GetProp(phenotypeMap, reverseDiplotype) # Undefined
                THEN GetProp(phenotypeMap, reverseDiplotype)
           ELSE IF Len(parts) = 2 /\ normalizedGene = "SLCO1B1"
                   /\ calculateSLCO1B1Phenotype(parts[1], parts[2]) # Undefined
                THEN calculateSLCO1B1Phenotype(parts[1], parts[2])
           ELSE IF Len(parts) = 2 /\ normalizedGene = "DPYD"
                   /\ calculateDPYDPhenotype(parts[1], parts[2]) # Undefined
                THEN calculateDPYDPhenotype(parts[1], parts[2])
           ELSE "Unknown"

isValidPhenotypeForGene(gene, phenotype) ==
  LET validPhenotypes ==
        ("CYP2C19" :> {"PM", "IM", "NM", "RM", "UM", "Unknown"}) @@
        ("CYP2D6" :> {"PM", "IM", "NM", "UM", "Unknown"}) @@
        ("CYP2C9" :> {"PM", "IM", "NM", "Unknown"}) @@
        ("SLCO1B1" :> {"PM", "IM", "NM", "Unknown"}) @@
        ("TPMT" :> {"PM", "IM", "NM", "Unknown"}) @@
        ("DPYD" :> {"PM", "IM", "NM", "Unknown"})
  IN  phenotype \in (IF gene \in DOMAIN validPhenotypes THEN validPhenotypes[gene] ELSE {"Unknown"})

(***************************************************************************)
(* Risk engine.  A confidence score is the decimal the source writes, kept *)
(* as text: the engine never computes with it.  The route handler rounds   *)
(* it to two decimals, and there it becomes a number of hundredths.        *)
(***************************************************************************)
DRUG_GENE_MAP ==
  ("CODEINE" :> "CYP2D6") @@ ("CLOPIDOGREL" :> "CYP2C19") @@ ("WARFARIN" :> "CYP2C9") @@
  ("SIMVASTATIN" :> "SLCO1B1") @@ ("AZATHIOPRINE" :> "TPMT") @@ ("FLUOROURACIL" :> "DPYD") @@
  ("5-FLUOROURACIL" :> "DPYD") @@ ("5-FU" :> "DPYD")

SUPPORTED_DRUGS == DOMAIN DRUG_GENE_MAP

RiskRow(r, s, c) == [risk |-> r, severity |-> s, confidence |-> c]

CLOPIDOGREL_RISK ==
  ("PM" :> RiskRow("Ineffective", "high", "0.95")) @@
  ("IM" :> RiskRow("Adjust Dosage", "moderate", "0.90")) @@
  ("NM" :> RiskRow("Safe", "none", "0.95")) @@
  ("RM" :> RiskRow("Safe", "none", "0.90")) @@
  ("UM" :> RiskRow("Safe", "none", "0.90")) @@
  ("Unknown" :> RiskRow("Unknown", "low", "0.50"))

CODEINE_RISK ==
  ("PM" :> RiskRow("Ineffective", "high", "0.95")) @@
  ("IM" :> RiskRow("Adjust Dosage", "moderate", "0.90")) @@
  ("NM" :> RiskRow("Safe", "none", "0.95")) @@
  ("RM" :> RiskRow("Adjust Dosage", "moderate", "0.85")) @@
  ("UM" :> RiskRow("Toxic", "critical", "0.95")) @@
  ("Unknown" :> RiskRow("Unknown", "low", "0.50"))

WARFARIN_RISK ==
  ("PM" :> RiskRow("Adjust Dosage", "moderate", "0.95")) @@
  ("IM" :> RiskRow("Adjust Dosage", "moderate", "0.90")) @@
  ("NM" :> RiskRow("Safe", "none", "0.95")) @@
  ("RM" :> RiskRow("Safe", "none", "0.85")) @@
  ("UM" :> RiskRow("Safe", "none", "0.85")) @@
  ("Unknown" :> RiskRow("Unknown", "low", "0.50"))

SIMVASTATIN_RISK ==
  ("PM" :> RiskRow("Toxic", "critical", "0.95")) @@
  ("IM" :> RiskRow("Adjust Dosage", "moderate", "0.90")) @@
  ("NM" :> RiskRow("Safe", "none", "0.95")) @@
  ("RM" :> RiskRow("Safe", "none", "0.85")) @@
  ("UM" :> RiskRow("Safe", "none", "0.85")) @@
  ("Unknown" :> RiskRow("Unknown", "low", "0.50"))

AZATHIOPRINE_RISK ==
  ("PM" :> RiskRow("Toxic", "critical", "0.95")) @@
  ("IM" :> RiskRow("Adjust Dosage", "moderate", "0.90")) @@
  ("NM" :> RiskRow("Safe", "none", "0.95")) @@
  ("RM" :> RiskRow("Safe", "none", "0.85")) @@
  ("UM" :> RiskRow("Safe", "none", "0.85")) @@
  ("Unknown" :> RiskRow("Unknown", "low", "0.50"))

FLUOROURACIL_RISK ==
  ("PM" :> RiskRow("Toxic", "critical", "0.95")) @@
  ("IM" :> RiskRow("Adjust Dosage", "moderate", "0.90")) @@
  ("NM" :> RiskRow("Safe", "none", "0.95")) @@
  ("RM" :> RiskRow("Safe", "none", "0.85")) @@
  ("UM" :> RiskRow("Safe", "none", "0.85")) @@
  ("Unknown" :> RiskRow("Unknown", "low", "0.50"))

RISK_RULES ==
  ("CODEINE" :> CODEINE_RISK) @@ ("CLOPIDOGREL" :> CLOPIDOGREL_RISK) @@
  ("WARFARIN" :> WARFARIN_RISK) @@ ("SIMVASTATIN" :> SIMVASTATIN_RISK) @@
  ("AZATHIOPRINE" :> AZATHIOPRINE_RISK) @@ ("FLUOROURACIL" :> FLUOROURACIL_RISK) @@
  ("5-FLUOROURACIL" :> FLUOROURACIL_RISK) @@ ("5-FU" :> FLUOROURACIL_RISK)

SEVERITY_MAP ==
  ("Safe" :> "none") @@ ("Adjust Dosage" :> "moderate") @@ ("Ineffective" :> "high") @@
  ("Toxic" :> "critical") @@ ("Unknown" :> "low")

\* a mutant: every drug is looked up under CYP2C19
getPrimaryGeneConflated(drug) ==
  IF drug \in DOMAIN DRUG_GENE_MAP THEN "CYP2C19" ELSE Undefined

getPrimaryGene(drug) ==
  IF drug \in DOMAIN DRUG_GENE_MAP THEN DRUG_GENE_MAP[drug] ELSE Undefined

\* drug.toUpperCase().trim(), the first statement of calculateRisk and of
\* getClinicalRecommendation, raises a TypeError when there is no drug
normalizingRaises(drug) == drug = Undefined

RiskAssessment(l, c, s) == [risk_label |-> l, confidence_score |-> c, severity |-> s]

\* drugRules[phenotype]: a row of the table, or what an inherited member
\* gives when .risk, .severity and .confidence are read from it
riskDataOf(drugRules, phenotype) ==
  IF phenotype \in DOMAIN drugRules THEN drugRules[phenotype]
  ELSE RiskRow(Undefined, Undefined, Undefined)

\* SEVERITY_MAP[riskData.risk] || riskData.severity
alignedSeverity(riskData) ==
  IF GetProp(SEVERITY_MAP, riskData.risk) # Undefined
  THEN GetProp(SEVERITY_MAP, riskData.risk)
  ELSE riskData.severity

\* a mutant: the fallback for an unknown phenotype carries the severity of Safe
calculateRiskUnknownAsNone(drug, phenotype) ==
  LET normalizedDrug == trim(toUpperCase(drug))
      drugRules == RISK_RULES[normalizedDrug]
      riskData == riskDataOf(drugRules, phenotype)
  IN  IF normalizedDrug \notin DOMAIN RISK_RULES THEN RiskAssessment("Unknown", "0.0", "low")
      ELSE IF phenotype = Undefined \/ phenotype = "" \/ phenotype = "Unknown"
           THEN RiskAssessment("Unknown", "0.50", "none")
      ELSE IF ~HasProp(drugRules, phenotype) THEN RiskAssessment("Unknown", "0.50", "none")
      ELSE RiskAssessment(riskData.risk, riskData.confidence, alignedSeverity(riskData))

\* a mutant: an unsupported drug with a phenotype is given the generic table
calculateRiskGenericDrug(drug, phenotype) ==
  LET normalizedDrug == trim(toUpperCase(drug))
      drugRules == IF normalizedDrug \notin DOMAIN RISK_RULES
                   THEN FLUOROURACIL_RISK ELSE RISK_RULES[normalizedDrug]
      riskData == riskDataOf(drugRules, phenotype)
  IN  IF phenotype = Undefined \/ phenotype = "" \/ phenotype = "Unknown"
      THEN RiskAssessment("Unknown", "0.50", "low")
      ELSE IF ~HasProp(drugRules, phenotype) THEN RiskAssessment("Unknown", "0.50", "low")
      ELSE RiskAssessment(riskData.risk, riskData.confidence, alignedSeverity(riskData))

calculateRisk(drug, phenotype) ==
  LET normalizedDrug == trim(toUpperCase(drug))
      drugRules == RISK_RULES[normalizedDrug]
      riskData == riskDataOf(drugRules, phenotype)
  IN  IF normalizedDrug \notin DOMAIN RISK_RULES THEN RiskAssessment("Unknown", "0.0", "low")
      ELSE IF phenotype = Undefined \/ phenotype = "" \/ phenotype = "Unknown"
           THEN RiskAssessment("Unknown", "0.50", "low")
      ELSE IF ~HasProp(drugRules, phenotype) THEN RiskAssessment("Unknown", "0.50", "low")
      ELSE RiskAssessment(riskData.risk, riskData.confidence, alignedSeverity(riskData))

(***************************************************************************)
(* Clinical recommendation.  A template is named by its table and keys     *)
(* instead of being spelled out; the generic rationale keeps the values    *)
(* it interpolates.                                                        *)
(***************************************************************************)
CLINICAL_ACTIONS == {"Safe", "Adjust Dosage", "Toxic", "Ineffective", "Unknown"}

\* the risk labels each drug has a rationale for
DRUG_RATIONALES ==
  ("CLOPIDOGREL" :> {"Safe", "Adjust Dosage", "Ineffective", "Unknown"}) @@
  ("CODEINE" :> {"Safe", "Adjust Dosage", "Toxic", "Ineffective", "Unknown"}) @@
  ("WARFARIN" :> {"Safe", "Adjust Dosage", "Unknown"}) @@
  ("SIMVASTATIN" :> {"Safe", "Adjust Dosage", "Toxic", "Unknown"}) @@
  ("AZATHIOPRINE" :> {"Safe", "Adjust Dosage", "Toxic", "Unknown"}) @@
  ("FLUOROURACIL" :> {"Safe", "Adjust Dosage", "Toxic", "Unknown"})

getClinicalRecommendation(riskLabel, drug, phenotype) ==
  LET normalizedDrug == trim(toUpperCase(drug))
      action == IF riskLabel \in CLINICAL_ACTIONS
                THEN [table |-> "CLINICAL_ACTIONS", key |-> riskLabel]
                ELSE IF riskLabel \in ObjectPrototypeKeys
                THEN [table |-> "Object.prototype", key |-> riskLabel]
                ELSE [table |-> "CLINICAL_ACTIONS", key |-> "Unknown"]
      gene == IF normalizedDrug \in DOMAIN DRUG_GENE_MAP
              THEN DRUG_GENE_MAP[normalizedDrug] ELSE "relevant gene"
      phenotypeDesc == IF phenotype = Undefined \/ phenotype = "" THEN "Unknown" ELSE phenotype
      rationale ==
        IF normalizedDrug \in DOMAIN DRUG_RATIONALES
           /\ (riskLabel \in DRUG_RATIONALES[normalizedDrug] \/ riskLabel \in ObjectPrototypeKeys)
        \* drugRationales[riskLabel] is truthy for an inherited member too
        THEN [table |-> IF riskLabel \in ObjectPrototypeKeys
                        THEN "Object.prototype" ELSE "DRUG_RATIONALES",
              drug |-> normalizedDrug, key |-> riskLabel]
        ELSE IF riskLabel \in {"Safe", "Adjust Dosage", "Toxic", "Ineffective"}
        THEN [table |-> "generic", key |-> riskLabel, phenotype |-> phenotypeDesc,
              gene |-> gene, drug |-> normalizedDrug]
        ELSE [table |-> "generic", key |-> "default", gene |-> gene, drug |-> normalizedDrug]
  IN  [action |-> action, rationale |-> rationale]

(***************************************************************************)
(* Drug input                                                              *)
(***************************************************************************)
validateDrug(drugName) ==
  IF drugName = Undefined \/ drugName = "" THEN [valid |-> FALSE]
  ELSE IF trim(toUpperCase(drugName)) \notin SUPPORTED_DRUGS THEN [valid |-> FALSE]
  ELSE [valid |-> TRUE, normalizedName |-> trim(toUpperCase(drugName))]

\* the entries of a comma-separated list, trimmed, uppercased, blanks dropped
drugEntries(drugInput) ==
  SelectSeq([i \in 1..Len(split(drugInput, ",")) |-> toUpperCase(trim(split(drugInput, ",")[i]))],
            LAMBDA d : d # "")

parseDrugInput(drugInput) ==
  IF drugInput = Undefined \/ drugInput = "" THEN <<>>
  ELSE [i \in 1..Len(drugEntries(drugInput)) |->
          [original |-> drugEntries(drugInput)[i]] @@ validateDrug(drugEntries(drugInput)[i])]

(***************************************************************************)
(* VCF parser                                                              *)
(***************************************************************************)
TARGET_GENES == {"CYP2D6", "CYP2C19", "CYP2C9", "SLCO1B1", "TPMT", "DPYD"}

\* one 'key=value' pair added to the annotations read so far: the pair is
\* dropped when its key or its value is missing, the text after a second
\* '=' is ignored, and a repeated key keeps its last value
addPair(result, pair) ==
  LET kv == split(pair, "=")
  IN  IF Len(kv) >= 2 /\ kv[1] # "" /\ kv[2] # ""
      THEN (toLowerCase(kv[1]) :> kv[2]) @@ result
      ELSE result

RECURSIVE addPairs(_, _)
addPairs(result, pairs) ==
  IF pairs = <<>> THEN result ELSE addPairs(addPair(result, Head(pairs)), Tail(pairs))

parseINFO(info) ==
  IF info = Undefined \/ info = "" \/ info = "." THEN <<>>
  ELSE addPairs(<<>>, split(info, ";"))

\* parsedInfo.key, for the keys the parser reads (none is inherited)
infoValue(parsedInfo, key) ==
  IF key \in DOMAIN parsedInfo THEN parsedInfo[key] ELSE Undefined

\* columnIndices after a header line: each column name, uppercased, is
\* mapped to its index (from 0); a name already mapped is overwritten
RECURSIVE addHeaders(_, _, _)
addHeaders(columnIndices, headers, index) ==
  IF headers = <<>> THEN columnIndices
  ELSE addHeaders((toUpperCase(Head(headers)) :> index) @@ columnIndices, Tail(headers), index + 1)

\* fields[columnIndices[name]]
fieldOf(fields, columnIndices, name) ==
  IF name \in DOMAIN columnIndices /\ columnIndices[name] + 1 <= Len(fields)
  THEN fields[columnIndices[name] + 1]
  ELSE Undefined

\* x || y for strings
OrElse(x, y) == IF x = Undefined \/ x = "" THEN y ELSE x

variantOfRow(fields, columnIndices, parsedInfo) ==
  [chrom |-> OrElse(fieldOf(fields, columnIndices, "CHROM"), ""),
   pos |-> OrElse(fieldOf(fields, columnIndices, "POS"), ""),
   id |-> OrElse(fieldOf(fields, columnIndices, "ID"), "."),
   ref |-> OrElse(fieldOf(fields, columnIndices, "REF"), ""),
   alt |-> OrElse(fieldOf(fields, columnIndices, "ALT"), ""),
   gene_symbol |-> toUpperCase(parsedInfo["gene"]),
   rsid |-> OrElse(infoValue(parsedInfo, "rs"),
              OrElse(infoValue(parsedInfo, "rsid"),
                OrElse(fieldOf(fields, columnIndices, "ID"), ""))),
   star_allele |-> OrElse(infoValue(parsedInfo, "star"), "")]

\* the parser's locals before the first line
parserStart ==
  [headerFound |-> FALSE, columnIndices |-> <<>>, variants |-> <<>>, geneVariants |-> <<>>]

\* geneVariants[gene] || []
variantsOfGene(geneVariants, gene) ==
  IF gene \in DOMAIN geneVariants THEN geneVariants[gene] ELSE <<>>

\* a mutant: a variant is grouped under the gene name as the file writes it
parseLineRawGeneKey(st, line) ==
  IF startsWith(line, "##") THEN st
  ELSE IF startsWith(line, "#CHROM")
  THEN [st EXCEPT !.headerFound = TRUE,
                  !.columnIndices = addHeaders(@, split(Tail(line), "\t"), 0)]
  ELSE IF trim(line) = "" THEN st
  ELSE IF ~st.headerFound THEN st
  ELSE LET fields == split(line, "\t")
           parsedInfo == parseINFO(fieldOf(fields, st.columnIndices, "INFO"))
           variant == variantOfRow(fields, st.columnIndices, parsedInfo)
       IN  IF fieldOf(fields, st.columnIndices, "INFO") = Undefined THEN st
           ELSE IF "gene" \in DOMAIN parsedInfo /\ toUpperCase(parsedInfo["gene"]) \in TARGET_GENES
           THEN [st EXCEPT !.variants = Append(@, variant),
                           !.geneVariants =
                              (parsedInfo["gene"] :> Append(variantsOfGene(@, parsedInfo["gene"]), variant)) @@ @]
           ELSE st

\* one iteration of the loop over the lines
parseLine(st, line) ==
  IF startsWith(line, "##") THEN st
  ELSE IF startsWith(line, "#CHROM")
  THEN [st EXCEPT !.headerFound = TRUE,
                  !.columnIndices = addHeaders(@, split(Tail(line), "\t"), 0)]
  ELSE IF trim(line) = "" THEN st
  ELSE IF ~st.headerFound THEN st
  ELSE LET fields == split(line, "\t")
           parsedInfo == parseINFO(fieldOf(fields, st.columnIndices, "INFO"))
           variant == variantOfRow(fields, st.columnIndices, parsedInfo)
       IN  IF fieldOf(fields, st.columnIndices, "INFO") = Undefined THEN st
           ELSE IF "gene" \in DOMAIN parsedInfo /\ toUpperCase(parsedInfo["gene"]) \in TARGET_GENES
           THEN [st EXCEPT !.variants = Append(@, variant),
                           !.geneVariants =
                              (variant.gene_symbol :> Append(variantsOfGene(@, variant.gene_symbol), variant)) @@ @]
           ELSE st

RECURSIVE parseLines(_, _)
parseLines(st, lines) ==
  IF lines = <<>> THEN st ELSE parseLines(parseLine(st, Head(lines)), Tail(lines))

\* a mutant: the parse counts as successful when it found a variant
parseVCFSuccessByVariants(vcfContent) ==
  LET st == parseLines(parserStart, split(vcfContent, "\n"))
  IN  [success |-> Len(st.variants) > 0,
       totalVariants |-> Len(st.variants),
       variants |-> st.variants,
       geneVariants |-> st.geneVariants,
       targetGenes |-> TARGET_GENES]

parseVCF(vcfContent) ==
  LET st == parseLines(parserStart, split(vcfContent, "\n"))
  IN  [success |-> st.headerFound,
       totalVariants |-> Len(st.variants),
       variants |-> st.variants,
       geneVariants |-> st.geneVariants,
       targetGenes |-> TARGET_GENES]

validateVCF(vcfContent) ==
  IF vcfContent = Undefined \/ vcfContent = "" THEN [valid |-> FALSE]
  ELSE [valid |-> \E i \in 1..Len(split(vcfContent, "\n")) :
                     startsWith(split(vcfContent, "\n")[i], "#CHROM")]

(***************************************************************************)
(* State.  op, args, ret: the last call of an exported function, with its *)
(* arguments and its result.  The other variables are one POST /analyze    *)
(* request: pc is where its handler stands, req the request, the rest the  *)
(* handler's locals and res the response it sent.                          *)
(***************************************************************************)
VARIABLES op, args, ret, pc, req, parsedVCF, validDrugs, idx, pending, results, res, llm

\* The web client (frontend/src/App.js): the state of the App component.
\* resultsState is its results state, null or the data of a response, which
\* is told here by the request it answers; inFlight holds the requests sent
\* and not yet answered; fileError is the error state of FileUpload;
\* drugsState is the drugs state.
VARIABLES vcfFile, drugsState, resultsState, loading, error, fileError, inFlight

callVars == <<op, args, ret>>
handlerVars == <<pc, req, parsedVCF, validDrugs, idx, pending, results, res, llm>>
serverVars == <<op, args, ret, pc, req, parsedVCF, validDrugs, idx, pending, results, res, llm>>
clientVars == <<vcfFile, drugsState, resultsState, loading, error, fileError, inFlight>>
vars == <<serverVars, clientVars>>

\* null, for the client's states that hold a string or nothing
Null == "<null>"

\* longest variant list handed to determineDiplotype
MaxVariants == 3

\* most data rows in an uploaded file
MaxRows == 3

\* drug arguments: supported names as the engine accepts them (any case,
\* surrounding blanks) and names it does not support
DrugInputs ==
  {"CODEINE", "codeine", " Warfarin ", "CLOPIDOGREL", "SIMVASTATIN", "AZATHIOPRINE",
   "FLUOROURACIL", "5-fluorouracil", "5-FU", "5-fu ",
   "ASPIRIN", "ibuprofen", "", "CODEINE X", "constructor"}

\* phenotype arguments: the six codes, a missing or empty one, codes in the
\* wrong case, unrecognized strings
PhenotypeInputs ==
  {"PM", "IM", "NM", "RM", "UM", "Unknown", Undefined, "",
   "pm", "nm", "unknown", "XM", "constructor", "__proto__"}

\* risk-label arguments: the five labels, a missing or empty one, a label in
\* the wrong case, unrecognized strings
RiskLabelInputs ==
  {"Safe", "Adjust Dosage", "Toxic", "Ineffective", "Unknown", Undefined, "",
   "safe", "Critical", "constructor"}

GeneInputs ==
  {"CYP2C19", "CYP2D6", "CYP2C9", "SLCO1B1", "TPMT", "DPYD", "cyp2c19", " dpyd", "BRCA1", ""}

\* allele labels: those of the tables, and labels of no table
AlleleInputs ==
  {"*1", "*2", "*3", "*4", "*5", "*13", "*15", "*17",
   "*1a", "*1A", "*1b", "*1B", "*2A", "*3A", "*3B", "*3C", "*2xN", "*1xN",
   "*rs67376798", "Normal", "Decreased", "NoFunction",
   "*9", " *2", "", "constructor"}

\* diplotype arguments that are not two labels around one '/'
OtherDiplotypes ==
  {Undefined, "", "Unknown", "*1", "constructor", "*1/*2/*3", "*1/*5/"}

\* star_allele values of a variant: labels, no label, an annotation that is
\* not a star allele, an annotation that holds a whole diplotype, a label
\* followed by a blank
StarInputs ==
  {"*1", "*2", "*17", "*3A", "*3B", "*3b", "*2xN", "", "rs123", "*1/*2", "*2 "}

\* most copies of one label in a variant list built from label counts
MaxCopies == 2

\* the labels such a list is built from
CopiedLabels == <<"*17", "*3", "*2">>

VariantOf(star) == [rsid |-> "rs1", star_allele |-> star]

\* n variants of one label
RECURSIVE copiesOf(_, _)
copiesOf(star, n) ==
  IF n = 0 THEN <<>> ELSE <<VariantOf(star)>> \o copiesOf(star, n - 1)

RECURSIVE SeqsUpTo(_, _)
SeqsUpTo(S, n) ==
  IF n = 0 THEN {<<>>}
  ELSE SeqsUpTo(S, n - 1) \cup
       {Append(q, x) : q \in {r \in SeqsUpTo(S, n - 1) : Len(r) = n - 1}, x \in S}

VcfMeta == "##fileformat=VCFv4.2"
VcfHeader == "#CHROM\tPOS\tID\tREF\tALT\tQUAL\tFILTER\tINFO"

\* data rows: the two CYP2C19 variants of the README example, a CYP2C19 row
\* without star allele and with the gene in lower case, rows of other target
\* genes (the CYP2C9 label is in no table), a row of a gene outside the
\* allow-list
DataRows ==
  {"10\t96541616\trs4244285\tG\tA\t.\tPASS\tGENE=CYP2C19;RS=rs4244285;STAR=*2",
   "10\t96521657\trs12248560\tC\tT\t.\tPASS\tGENE=CYP2C19;RS=rs12248560;STAR=*17",
   "10\t96522463\trs12769205\tA\tG\t.\tPASS\tGENE=cyp2c19",
   "22\t42524947\trs3892097\tC\tT\t.\tPASS\tGENE=CYP2D6;RS=rs3892097;STAR=*4",
   "1\t97915614\trs3918290\tC\tT\t.\tPASS\tGENE=DPYD;STAR=*2A",
   "12\t21331549\trs4149056\tT\tC\t.\tPASS\tGENE=SLCO1B1;STAR=*5",
   "10\t96702047\trs28371685\tC\tT\t.\tPASS\tGENE=CYP2C9;STAR=*11",
   "17\t43044295\trs80357906\tC\tT\t.\tPASS\tGENE=BRCA1;STAR=*2"}

RECURSIVE joinLines(_)
joinLines(lines) ==
  IF lines = <<>> THEN ""
  ELSE IF Len(lines) = 1 THEN lines[1]
  ELSE lines[1] \o "\n" \o joinLines(Tail(lines))

\* most lines of a text handed to parseVCF
MaxLines == 3

\* a header line that declares the annotation column third
AltHeader == "#CHROM\tPOS\tINFO"

\* lines of such a text: metadata, the two header lines, an empty line, rows
\* of target genes (one with the gene in lower case), a row of another gene,
\* a row without gene annotation, a row of three fields
ParserLines ==
  {VcfMeta, VcfHeader, AltHeader, "",
   "10\t96541616\trs4244285\tG\tA\t.\tPASS\tGENE=CYP2C19;RS=rs4244285;STAR=*2",
   "10\t96522463\trs12769205\tA\tG\t.\tPASS\tGENE=cyp2c19",
   "22\t42524947\trs3892097\tC\tT\t.\tPASS\tGENE=CYP2D6;RS=rs3892097;STAR=*4",
   "17\t43044295\trs80357906\tC\tT\t.\tPASS\tGENE=BRCA1;STAR=*2",
   "1\t97915614\trs3918290\tC\tT\t.\tPASS\tRS=rs3918290;STAR=*2A",
   "12\t21331549\tGENE=SLCO1B1;STAR=*5"}

\* uploaded contents: well-formed files of up to MaxRows data rows, a file
\* without header line, an empty file
UploadedFiles ==
  {joinLines(<<VcfMeta, VcfHeader>> \o rows) : rows \in SeqsUpTo(DataRows, MaxRows)}
  \cup {joinLines(<<VcfMeta>> \o rows) : rows \in SeqsUpTo(DataRows, 1)}
  \cup {""}

\* the drugs field of a request: each supported name alone, lists, names
\* that are not supported, no field
DrugFields ==
  {"CLOPIDOGREL", "codeine", "Warfarin", "SIMVASTATIN", "azathioprine", "FLUOROURACIL",
   "5-fluorouracil", "5-FU", "warfarin, aspirin ,simvastatin", "aspirin",
   "aspirin,ibuprofen", Undefined}

Init ==
  /\ op = "none"
  /\ args = <<>>
  /\ ret = <<>>
  /\ pc = "idle"
  /\ req = <<>>
  /\ parsedVCF = <<>>
  /\ validDrugs = <<>>
  /\ idx = 0
  /\ pending = <<>>
  /\ results = <<>>
  /\ res = <<>>
  /\ llm = "none"
  /\ vcfFile = Null
  /\ drugsState = ""
  /\ resultsState = Null
  /\ loading = FALSE
  /\ error = Null
  /\ fileError = Null
  /\ inFlight = <<>>

\* a call of the risk engine either returns (op is the function's name and
\* ret its value) or raises (op says so and ret names the error)
CallCalculateRisk ==
  /\ UNCHANGED clientVars
  /\ op = "none"
  /\ pc = "idle"
  /\ UNCHANGED handlerVars
  /\ \E drug \in DrugInputs \cup {Undefined}, phenotype \in PhenotypeInputs :
      /\ args' = [drug |-> drug, phenotype |-> phenotype]
      /\ IF normalizingRaises(drug)
         THEN op' = "calculateRisk raised" /\ ret' = "TypeError"
         ELSE op' = "calculateRisk" /\ ret' = calculateRisk(drug, phenotype)

CallGetClinicalRecommendation ==
  /\ UNCHANGED clientVars
  /\ op = "none"
  /\ pc = "idle"
  /\ UNCHANGED handlerVars
  /\ \E riskLabel \in RiskLabelInputs, drug \in DrugInputs \cup {Undefined},
        phenotype \in PhenotypeInputs :
      /\ args' = [riskLabel |-> riskLabel, drug |-> drug, phenotype |-> phenotype]
      /\ IF normalizingRaises(drug)
         THEN op' = "getClinicalRecommendation raised" /\ ret' = "TypeError"
         ELSE /\ op' = "getClinicalRecommendation"
              /\ ret' = getClinicalRecommendation(riskLabel, drug, phenotype)

CallNormalizeDiplotype ==
  /\ UNCHANGED clientVars
  /\ op = "none"
  /\ pc = "idle"
  /\ UNCHANGED handlerVars
  /\ \E d \in {a \o "/" \o b : a \in AlleleInputs, b \in AlleleInputs} \cup OtherDiplotypes :
      /\ op' = "normalizeDiplotype"
      /\ args' = [diplotype |-> d]
      /\ ret' = normalizeDiplotype(d)

CallDetermineDiplotype ==
  /\ UNCHANGED clientVars
  /\ op = "none"
  /\ pc = "idle"
  /\ UNCHANGED handlerVars
  /\ \E stars \in SeqsUpTo(StarInputs, MaxVariants) :
      /\ op' = "determineDiplotype"
      /\ args' = [variants |-> [i \in 1..Len(stars) |-> VariantOf(stars[i])]]
      /\ ret' = determineDiplotype(args'.variants)

\* the resolver on a list in which each label occurs a chosen number of times
CallDetermineDiplotypeCopies ==
  /\ UNCHANGED clientVars
  /\ op = "none"
  /\ pc = "idle"
  /\ UNCHANGED handlerVars
  /\ \E n \in [1..Len(CopiedLabels) -> 0..MaxCopies] :
      /\ op' = "determineDiplotype"
      /\ args' = [variants |-> copiesOf(CopiedLabels[1], n[1]) \o copiesOf(CopiedLabels[2], n[2])
                                 \o copiesOf(CopiedLabels[3], n[3])]
      /\ ret' = determineDiplotype(args'.variants)

\* the parser on a text of up to MaxLines lines
CallParseVCF ==
  /\ UNCHANGED clientVars
  /\ op = "none"
  /\ pc = "idle"
  /\ UNCHANGED handlerVars
  /\ \E lines \in SeqsUpTo(ParserLines, MaxLines) :
      /\ op' = "parseVCF"
      /\ args' = [vcfContent |-> joinLines(lines)]
      /\ ret' = parseVCF(joinLines(lines))

\* the classifier on a diplotype written A/B
CallDeterminePhenotypePair ==
  /\ UNCHANGED clientVars
  /\ op = "none"
  /\ pc = "idle"
  /\ UNCHANGED handlerVars
  /\ \E gene \in GeneInputs, a \in AlleleInputs, b \in AlleleInputs :
      /\ op' = "determinePhenotypeByGene"
      /\ args' = [gene |-> gene, diplotype |-> a \o "/" \o b, pair |-> <<a, b>>]
      /\ ret' = determinePhenotypeByGene(gene, a \o "/" \o b)

\* the classifier on any other diplotype argument
CallDeterminePhenotypeOther ==
  /\ UNCHANGED clientVars
  /\ op = "none"
  /\ pc = "idle"
  /\ UNCHANGED handlerVars
  /\ \E gene \in GeneInputs, d \in OtherDiplotypes :
      /\ op' = "determinePhenotypeByGene"
      /\ args' = [gene |-> gene, diplotype |-> d, pair |-> <<>>]
      /\ ret' = determinePhenotypeByGene(gene, d)

\* the call has returned and its result has been consumed
Return ==
  /\ UNCHANGED clientVars
  /\ op # "none"
  /\ op' = "none"
  /\ args' = <<>>
  /\ ret' = <<>>
  /\ UNCHANGED handlerVars

(***************************************************************************)
(* POST /analyze                                                           *)
(***************************************************************************)
Respond(status, body) ==
  /\ res' = [status |-> status, body |-> body]
  /\ pc' = "responded"

\* a mutant: the list is given up at its first name that does not validate
validDrugsOfUntilInvalid(drugField) ==
  LET drugs == parseDrugInput(drugField)
      firstInvalid == IF \A i \in 1..Len(drugs) : drugs[i].valid THEN Len(drugs) + 1
                      ELSE CHOOSE i \in 1..Len(drugs) :
                             ~drugs[i].valid /\ \A j \in 1..(i - 1) : drugs[j].valid
  IN  [i \in 1..(firstInvalid - 1) |-> drugs[i].normalizedName]

\* the drugs of the list that validate, by their normalized names
validDrugsOf(drugField) ==
  LET drugs == SelectSeq(parseDrugInput(drugField), LAMBDA d : d.valid)
  IN  [i \in 1..Len(drugs) |-> drugs[i].normalizedName]

\* a mutant: the file is validated and parsed before the drug list is looked at
AnalyzeReceiveFileFirst ==
  /\ UNCHANGED clientVars
  /\ pc = "idle"
  /\ op = "none"
  /\ \E uploadError \in BOOLEAN, file \in UploadedFiles \cup {Undefined}, drugField \in DrugFields :
    /\ uploadError => (file = Undefined /\ drugField = Undefined)
    /\ req' = [uploadError |-> uploadError, file |-> file, drugs |-> drugField]
    /\ results' = <<>>
    /\ pending' = <<>>
    /\ UNCHANGED <<callVars, llm>>
    /\ LET drugs == validDrugsOf(drugField)
           parsed == parseVCF(file)
       IN
       IF uploadError
       THEN Respond(400, "upload error") /\ UNCHANGED <<parsedVCF, validDrugs, idx>>
       ELSE IF file = Undefined
       THEN Respond(400, "No VCF file uploaded") /\ UNCHANGED <<parsedVCF, validDrugs, idx>>
       ELSE IF ~validateVCF(file).valid
       THEN Respond(400, "invalid VCF") /\ UNCHANGED <<parsedVCF, validDrugs, idx>>
       ELSE IF ~parsed.success
       THEN Respond(400, "Failed to parse VCF file") /\ UNCHANGED <<parsedVCF, validDrugs, idx>>
       ELSE IF drugField = Undefined \/ drugField = ""
       THEN Respond(400, "Drug name(s) required") /\ UNCHANGED <<parsedVCF, validDrugs, idx>>
       ELSE IF Len(drugs) = 0
       THEN Respond(400, "No valid drugs specified") /\ UNCHANGED <<parsedVCF, validDrugs, idx>>
       ELSE /\ parsedVCF' = parsed
            /\ validDrugs' = drugs
            /\ idx' = 1
            /\ pc' = "loop"
            /\ res' = res

\* the request arrives: upload, drug list and file are checked, the file is
\* parsed, and the loop over the valid drugs is entered
AnalyzeReceive ==
  /\ UNCHANGED clientVars
  /\ pc = "idle"
  /\ op = "none"
  /\ \E uploadError \in BOOLEAN, file \in UploadedFiles \cup {Undefined}, drugField \in DrugFields :
    /\ uploadError => (file = Undefined /\ drugField = Undefined)
    /\ req' = [uploadError |-> uploadError, file |-> file, drugs |-> drugField]
    /\ results' = <<>>
    /\ pending' = <<>>
    /\ UNCHANGED <<callVars, llm>>
    /\ LET drugs == validDrugsOf(drugField)
           parsed == parseVCF(file)
       IN
       IF uploadError
       THEN Respond(400, "upload error") /\ UNCHANGED <<parsedVCF, validDrugs, idx>>
       ELSE IF file = Undefined
       THEN Respond(400, "No VCF file uploaded") /\ UNCHANGED <<parsedVCF, validDrugs, idx>>
       ELSE IF drugField = Undefined \/ drugField = ""
       THEN Respond(400, "Drug name(s) required") /\ UNCHANGED <<parsedVCF, validDrugs, idx>>
       ELSE IF Len(drugs) = 0
       THEN Respond(400, "No valid drugs specified") /\ UNCHANGED <<parsedVCF, validDrugs, idx>>
       ELSE IF ~validateVCF(file).valid
       THEN Respond(400, "invalid VCF") /\ UNCHANGED <<parsedVCF, validDrugs, idx>>
       ELSE IF ~parsed.success
       THEN Respond(400, "Failed to parse VCF file") /\ UNCHANGED <<parsedVCF, validDrugs, idx>>
       ELSE /\ parsedVCF' = parsed
            /\ validDrugs' = drugs
            /\ idx' = 1
            /\ pc' = "loop"
            /\ res' = res

\* parseFloat(x.toFixed(2)) for a score x written with an integer part and
\* decimals: the number rounded to two decimals, in hundredths
roundedConfidence(x) ==
  LET parts == split(x, ".")
      decimals == IF Len(parts) >= 2 THEN parts[2] \o "000" ELSE "000"
      thousandths == 1000 * parseIntOrZero(parts[1]) + parseIntOrZero(SubSeq(decimals, 1, 3))
  IN  (thousandths + 5) \div 10

\* a mutant: the variants of every gene are handed to the resolver
assessDrugFromAllVariants(drugName, parsed) ==
  LET primaryGene == getPrimaryGene(drugName)
      geneVariants == parsed.variants
      diplotype == determineDiplotype(geneVariants)
      phenotype == determinePhenotypeByGene(primaryGene, diplotype)
      riskAssessment == calculateRisk(drugName, phenotype)
  IN  [drug |-> drugName,
       risk_assessment |->
         [risk_label |-> riskAssessment.risk_label,
          confidence_score |-> roundedConfidence(riskAssessment.confidence_score),
          severity |-> riskAssessment.severity],
       pharmacogenomic_profile |->
         [primary_gene |-> primaryGene, diplotype |-> diplotype, phenotype |-> phenotype,
          detected_variants |-> [i \in 1..Len(geneVariants) |-> geneVariants[i].rsid]],
       clinical_recommendation |->
         getClinicalRecommendation(riskAssessment.risk_label, drugName, phenotype)]

\* what the loop body computes for a drug before it asks for the explanation
assessDrug(drugName, parsed) ==
  LET primaryGene == getPrimaryGene(drugName)
      geneVariants == variantsOfGene(parsed.geneVariants, primaryGene)
      diplotype == determineDiplotype(geneVariants)
      phenotype == determinePhenotypeByGene(primaryGene, diplotype)
      riskAssessment == calculateRisk(drugName, phenotype)
  IN  [drug |-> drugName,
       risk_assessment |->
         [risk_label |-> riskAssessment.risk_label,
          confidence_score |-> roundedConfidence(riskAssessment.confidence_score),
          severity |-> riskAssessment.severity],
       pharmacogenomic_profile |->
         [primary_gene |-> primaryGene, diplotype |-> diplotype, phenotype |-> phenotype,
          detected_variants |-> [i \in 1..Len(geneVariants) |-> geneVariants[i].rsid]],
       clinical_recommendation |->
         getClinicalRecommendation(riskAssessment.risk_label, drugName, phenotype)]

\* one pass of the loop up to the await: the rule pipeline of the next drug,
\* then the call of generateExplanation
AnalyzeDrug ==
  /\ UNCHANGED clientVars
  /\ pc = "loop"
  /\ idx <= Len(validDrugs)
  /\ pending' = assessDrug(validDrugs[idx], parsedVCF)
  /\ pc' = "explain"
  /\ llm' = "pending"
  /\ UNCHANGED <<callVars, req, parsedVCF, validDrugs, idx, results, res>>

\* getFallbackExplanation: the static sentences of the gene (generic ones for
\* a gene without entry), the clinical impact being the sentence of the risk
\* label (that of Unknown for a label without entry)
getFallbackExplanation(drug, gene, diplotype, phenotype, riskLabel) ==
  [static |-> TRUE,
   template |-> "fallback",
   table |-> IF gene \in {"CYP2D6", "CYP2C19", "CYP2C9", "SLCO1B1", "TPMT", "DPYD"}
             THEN gene ELSE "generic",
   impact |-> IF riskLabel \in {"Safe", "Adjust Dosage", "Toxic", "Ineffective", "Unknown"}
              THEN riskLabel ELSE "Unknown",
   drug |-> drug, gene |-> gene, diplotype |-> diplotype, phenotype |-> phenotype,
   riskLabel |-> riskLabel]

\* parseExplanation of a reply without text: its three default sentences,
\* which name the gene, the drug, the phenotype and the risk label
defaultExplanation(drug, gene, phenotype, riskLabel) ==
  [static |-> TRUE, template |-> "default",
   drug |-> drug, gene |-> gene, phenotype |-> phenotype, riskLabel |-> riskLabel]

\* what generateExplanation resolves with: the sections of the service's
\* text; the fallback when the call raised (a reply without choices raises
\* inside the try block as well); the default sentences when the reply
\* carries no text
explanationOf(outcome, p) ==
  IF outcome = "text" THEN [static |-> FALSE, template |-> "service"]
  ELSE IF outcome = "raised"
  THEN getFallbackExplanation(p.drug, p.pharmacogenomic_profile.primary_gene,
                              p.pharmacogenomic_profile.diplotype,
                              p.pharmacogenomic_profile.phenotype,
                              p.risk_assessment.risk_label)
  ELSE defaultExplanation(p.drug, p.pharmacogenomic_profile.primary_gene,
                          p.pharmacogenomic_profile.phenotype,
                          p.risk_assessment.risk_label)

\* a mutant: an error of the service is rethrown and ends the request
ExplanationSettlesRethrowing ==
  /\ UNCHANGED clientVars
  /\ pc = "explain"
  /\ llm = "pending"
  /\ \E outcome \in {"text", "raised", "unusable"} :
    /\ llm' = outcome
    /\ pending' = <<>>
    /\ IF outcome = "text"
       THEN /\ results' = Append(results,
                 pending @@ [llm_generated_explanation |-> explanationOf(outcome, pending)])
            /\ idx' = idx + 1
            /\ pc' = "loop"
            /\ res' = res
       ELSE /\ Respond(500, "Internal server error during analysis")
            /\ UNCHANGED <<results, idx>>
    /\ UNCHANGED <<callVars, req, parsedVCF, validDrugs>>

\* generateExplanation settles: the service answered with text, the call
\* raised, or the answer carried no text; the result object is built and
\* pushed
ExplanationSettles ==
  /\ UNCHANGED clientVars
  /\ pc = "explain"
  /\ llm = "pending"
  /\ \E outcome \in {"text", "raised", "unusable"} :
    /\ llm' = outcome
    /\ results' = Append(results,
         pending @@ [llm_generated_explanation |-> explanationOf(outcome, pending)])
    /\ pending' = <<>>
    /\ idx' = idx + 1
    /\ pc' = "loop"
    /\ UNCHANGED <<callVars, req, parsedVCF, validDrugs, res>>

\* the service never answers: the promise the handler awaits stays pending;
\* the call is made without timeout option, abort signal or timer
ExplanationHangs ==
  /\ UNCHANGED clientVars
  /\ pc = "explain"
  /\ llm = "pending"
  /\ llm' = "hung"
  /\ UNCHANGED <<callVars, pc, req, parsedVCF, validDrugs, idx, pending, results, res>>

\* the loop is over: the single result, or the list of results, is sent
AnalyzeRespond ==
  /\ UNCHANGED clientVars
  /\ pc = "loop"
  /\ idx > Len(validDrugs)
  /\ Respond(200, IF Len(results) = 1 THEN results[1] ELSE results)
  /\ UNCHANGED <<callVars, req, parsedVCF, validDrugs, idx, pending, results, llm>>

\* the request is over; the server waits for the next one
AnalyzeClose ==
  /\ UNCHANGED clientVars
  /\ pc = "responded"
  /\ pc' = "idle"
  /\ req' = <<>>
  /\ parsedVCF' = <<>>
  /\ validDrugs' = <<>>
  /\ idx' = 0
  /\ pending' = <<>>
  /\ results' = <<>>
  /\ res' = <<>>
  /\ llm' = "none"
  /\ UNCHANGED callVars

Next ==
  \/ CallCalculateRisk
  \/ CallGetClinicalRecommendation
  \/ CallNormalizeDiplotype
  \/ CallDetermineDiplotype
  \/ CallDetermineDiplotypeCopies
  \/ CallParseVCF
  \/ CallDeterminePhenotypePair
  \/ CallDeterminePhenotypeOther
  \/ Return
  \/ AnalyzeReceive
  \/ AnalyzeDrug
  \/ ExplanationSettles
  \/ ExplanationHangs
  \/ AnalyzeRespond
  \/ AnalyzeClose

Spec == Init /\ [][Next]_vars

\* the steps of the server on requests
Serve ==
  \/ AnalyzeReceive
  \/ AnalyzeDrug
  \/ ExplanationSettles
  \/ ExplanationHangs
  \/ AnalyzeRespond
  \/ AnalyzeClose

\* the step of AnalyzeDrug told by the handler's position: among the steps
\* of the server only AnalyzeDrug moves pc from "loop" to "explain", and it
\* can be taken whenever a drug of the list is left
LoopTakesNextDrug ==
  /\ pc = "loop"
  /\ idx <= Len(validDrugs)
  /\ pc' = "explain"

\* the server alone: the handler's own steps are taken once they can be (the
\* event loop runs every continuation that is ready), and a call that can
\* settle does settle
LiveSpec ==
  /\ Init
  /\ [][Serve]_vars
  /\ WF_pc(LoopTakesNextDrug)
  /\ WF_vars(ExplanationSettles)
  /\ WF_vars(AnalyzeRespond)

(***************************************************************************)
(* Web client: the App component and its FileUpload                        *)
(***************************************************************************)

\* files the user can pick, with their sizes in megabytes
FileSizes == ("a.vcf" :> 1) @@ ("b.VCF" :> 2) @@ ("notes.txt" :> 1) @@ ("big.vcf" :> 6)
ClientFiles == DOMAIN FileSizes

\* values typed into the drug field
DrugTexts == {"", "  ", "CODEINE", "codeine, warfarin"}

MAX_FILE_SIZE == 5

\* validateFile of FileUpload: the error it sets, Null when the file passes
validateFile(file) ==
  LET ext == toLowerCase(split(file, ".")[Len(split(file, "."))])
  IN  IF ext # "vcf" THEN "Only .vcf files are allowed"
      ELSE IF FileSizes[file] > MAX_FILE_SIZE THEN "File size exceeds 5MB limit"
      ELSE Null

\* the form (file upload, drug field, button) is rendered while there are no
\* results; the results view with its reset button otherwise
FormShown == resultsState = Null

\* handleFileInput / handleDrop: a file is picked; handleFile passes it to
\* handleFileChange when validateFile accepts it
handleFile ==
  /\ FormShown
  /\ \E file \in ClientFiles :
      /\ fileError' = validateFile(file)
      /\ IF validateFile(file) = Null
         THEN vcfFile' = file /\ error' = Null /\ resultsState' = Null
         ELSE UNCHANGED <<vcfFile, error, resultsState>>
  /\ UNCHANGED <<serverVars, drugsState, loading, inFlight>>

\* handleRemove of FileUpload: handleFileChange(null)
handleRemove ==
  /\ FormShown
  /\ vcfFile # Null
  /\ vcfFile' = Null
  /\ error' = Null
  /\ resultsState' = Null
  /\ fileError' = Null
  /\ UNCHANGED <<serverVars, drugsState, loading, inFlight>>

handleDrugChange ==
  /\ FormShown
  /\ \E drugValue \in DrugTexts :
      /\ drugsState' = drugValue
      /\ error' = Null
  /\ UNCHANGED <<serverVars, vcfFile, resultsState, loading, fileError, inFlight>>

\* handleAnalyze up to its await: the button is rendered with the form and
\* is disabled while loading, without file or without drug text, so the two
\* early returns of the handler are not reached; the request is sent with
\* the file and the drug text of the moment
handleAnalyze ==
  /\ FormShown
  /\ ~(loading \/ vcfFile = Null \/ trim(drugsState) = "")
  /\ loading' = TRUE
  /\ error' = Null
  /\ resultsState' = Null
  /\ inFlight' = Append(inFlight, [file |-> vcfFile, drugs |-> drugsState])
  /\ UNCHANGED <<serverVars, vcfFile, drugsState, fileError>>

\* handleAnalyze after its awaits: the response of a request arrives (with
\* data, with an error status, or the fetch fails); setResults or setError,
\* then setLoading(false).  The data is told by the file of its request.
ResponseArrives ==
  /\ inFlight # <<>>
  /\ \E i \in 1..Len(inFlight), outcome \in {"ok", "not ok", "failed"} :
      /\ inFlight' = SubSeq(inFlight, 1, i - 1) \o SubSeq(inFlight, i + 1, Len(inFlight))
      /\ IF outcome = "ok"
         THEN /\ resultsState' = inFlight[i].file
              /\ error' = error
         ELSE /\ error' = IF outcome = "not ok" THEN "Analysis failed" ELSE "Failed to fetch"
              /\ resultsState' = resultsState
      /\ loading' = FALSE
  /\ UNCHANGED <<serverVars, vcfFile, drugsState, fileError>>

\* the reset button of the results view
handleReset ==
  /\ ~FormShown
  /\ vcfFile' = Null
  /\ drugsState' = ""
  /\ resultsState' = Null
  /\ error' = Null
  /\ UNCHANGED <<serverVars, loading, fileError, inFlight>>

ClientNext ==
  \/ handleFile
  \/ handleRemove
  \/ handleDrugChange
  \/ handleAnalyze
  \/ ResponseArrives
  \/ handleReset

ClientSpec == Init /\ [][ClientNext]_vars

(***************************************************************************)
(* Properties of the risk engine and of the phenotype mapper               *)
(***************************************************************************)

\* C1: whatever the drug and the phenotype, the severity calculateRisk returns
\* is the value SEVERITY_MAP holds for the risk_label it returns.
SeverityIsCanonical ==
  op = "calculateRisk" => ret.severity = GetProp(SEVERITY_MAP, ret.risk_label)

\* a supported drug with a phenotype of its table has been assessed, with a
\* label other than Unknown
SeverityIsCanonicalWitness ==
  /\ op = "calculateRisk"
  /\ trim(toUpperCase(args.drug)) = "CODEINE"
  /\ args.phenotype = "UM"
  /\ ret.risk_label = "Toxic"
  /\ ret.severity = "critical"

\* the diplotype of the last classifier call with its two sides exchanged
SwappedDiplotype == args.pair[2] \o "/" \o args.pair[1]

\* C2: for every gene and every two allele labels A and B, the classifier
\* returns for B/A what it returned for A/B.
ClassifierIgnoresOrder ==
  (op = "determinePhenotypeByGene" /\ args.pair # <<>>)
    => ret = determinePhenotypeByGene(args.gene, SwappedDiplotype)

\* a diplotype written against rank order was classified from the table
ClassifierIgnoresOrderWitness ==
  /\ op = "determinePhenotypeByGene"
  /\ args.gene = "CYP2C19"
  /\ args.diplotype = "*17/*2"
  /\ ret = "IM"

\* every reordering of a variant list
Reorderings(variants) ==
  {[i \in 1..Len(variants) |-> variants[p[i]]] : p \in Permutations(1..Len(variants))}

\* a is not ranked after b: numeric portion first, then the full label
RankedBefore(a, b) ==
  \/ alleleNumber(a) < alleleNumber(b)
  \/ alleleNumber(a) = alleleNumber(b) /\ localeCompare(a, b) <= 0

\* C3: determineDiplotype returns the same string for every reordering of the
\* variant list, and the two sides of that string are in allele-rank order.
DiplotypeIgnoresFileOrder ==
  op = "determineDiplotype" =>
    /\ \A w \in Reorderings(args.variants) : determineDiplotype(w) = ret
    /\ RankedBefore(diplotypeSides(args.variants)[1], diplotypeSides(args.variants)[2])
    /\ ret = diplotypeSides(args.variants)[1] \o "/" \o diplotypeSides(args.variants)[2]

\* two labels of equal numeric portion arrived with the higher-ranked first
DiplotypeIgnoresFileOrderWitness ==
  /\ op = "determineDiplotype"
  /\ Len(args.variants) >= 2
  /\ args.variants[1].star_allele = "*3B"
  /\ args.variants[2].star_allele = "*3A"
  /\ ret = "*3A/*3B"

FullyEnumeratedGenes == {"CYP2C19", "CYP2D6", "CYP2C9", "TPMT"}

\* the entry of a gene's table for a diplotype, in the normalized order or in
\* the reversed one, and Unknown when the table has neither
TableEntryOrUnknown(gene, diplotype) ==
  LET table == GENE_PHENOTYPE_MAPS[gene]
      normalized == normalizeDiplotype(diplotype)
      parts == split(normalized, "/")
  IN  IF normalized \in DOMAIN table THEN table[normalized]
      ELSE IF Len(parts) = 2 /\ (parts[2] \o "/" \o parts[1]) \in DOMAIN table
           THEN table[parts[2] \o "/" \o parts[1]]
      ELSE "Unknown"

\* C4: for CYP2C19, CYP2D6, CYP2C9 and TPMT the classifier returns the table
\* entry of the normalized or reversed diplotype when there is one and Unknown
\* otherwise; the activity scores are never used.
EnumeratedGenesUseTableOnly ==
  (op = "determinePhenotypeByGene" /\ args.gene \in FullyEnumeratedGenes)
    => ret = TableEntryOrUnknown(args.gene, args.diplotype)

ScoredGenes == {"SLCO1B1", "DPYD"}

AlleleFunctionOf(gene) ==
  IF gene = "SLCO1B1" THEN SLCO1B1_ALLELE_FUNCTION ELSE DPYD_ALLELE_FUNCTION

\* the diplotype is in the gene's table in neither order
InNeitherOrder(gene, diplotype) ==
  LET parts == split(normalizeDiplotype(diplotype), "/")
  IN  /\ (parts[1] \o "/" \o parts[2]) \notin DOMAIN GENE_PHENOTYPE_MAPS[gene]
      /\ (parts[2] \o "/" \o parts[1]) \notin DOMAIN GENE_PHENOTYPE_MAPS[gene]

\* the threshold rule on two allele labels (scores in half units), Unknown
\* when a label has no score in the table
ScoreRule(table, a, b) ==
  IF a \notin DOMAIN table \/ b \notin DOMAIN table THEN "Unknown"
  ELSE IF table[a] + table[b] >= 4 THEN "NM"
  ELSE IF table[a] + table[b] >= 2 THEN "IM"
  ELSE "PM"

\* C5: for SLCO1B1 and DPYD, a diplotype that is in the table in neither order
\* is classified by the sum of its two alleles' scores (NM from 2, IM from 1,
\* PM below 1), and is Unknown when either label has no score.
ScoredGenesUseThresholds ==
  (op = "determinePhenotypeByGene" /\ args.gene \in ScoredGenes /\ args.pair # <<>>
     /\ InNeitherOrder(args.gene, args.diplotype))
    => ret = ScoreRule(AlleleFunctionOf(args.gene),
                       split(normalizeDiplotype(args.diplotype), "/")[1],
                       split(normalizeDiplotype(args.diplotype), "/")[2])

\* C8: a drug name that is not supported once trimmed and uppercased gets
\* Unknown, confidence 0.0, severity low, whatever the phenotype.
UnsupportedDrugIsUnknown ==
  (op = "calculateRisk" /\ trim(toUpperCase(args.drug)) \notin SUPPORTED_DRUGS)
    => ret = RiskAssessment("Unknown", "0.0", "low")

\* an unsupported drug was assessed with a valid phenotype
UnsupportedDrugIsUnknownWitness ==
  /\ op = "calculateRisk"
  /\ args.drug = "ASPIRIN"
  /\ args.phenotype = "PM"
  /\ ret.confidence_score = "0.0"

\* C9: for a supported drug, a phenotype that is missing, is Unknown, or has no
\* entry in the drug's table gets Unknown, confidence 0.50, severity low.
UnmappedPhenotypeIsUnknown ==
  (/\ op = "calculateRisk"
   /\ trim(toUpperCase(args.drug)) \in SUPPORTED_DRUGS
   /\ \/ args.phenotype \in {Undefined, "", "Unknown"}
      \/ args.phenotype \notin DOMAIN RISK_RULES[trim(toUpperCase(args.drug))])
    => ret = RiskAssessment("Unknown", "0.50", "low")

PhenotypeCodes == {"PM", "IM", "NM", "RM", "UM", "Unknown"}

\* a phenotype code that isValidPhenotypeForGene rejects for the drug's
\* primary gene
NotMeaningfulFor(drug, phenotype) ==
  /\ phenotype \in PhenotypeCodes
  /\ ~isValidPhenotypeForGene(DRUG_GENE_MAP[drug], phenotype)

\* C10: for a supported drug, a phenotype code that is not valid for the drug's
\* primary gene (RM or UM for WARFARIN, RM for CODEINE) gets Unknown, confidence
\* 0.50, severity low.
InvalidPhenotypeIsUnknown ==
  (/\ op = "calculateRisk"
   /\ trim(toUpperCase(args.drug)) \in SUPPORTED_DRUGS
   /\ NotMeaningfulFor(trim(toUpperCase(args.drug)), args.phenotype))
    => ret = RiskAssessment("Unknown", "0.50", "low")

(***************************************************************************)
(* Properties of the analyze pipeline                                      *)
(***************************************************************************)

\* the non-empty star-allele labels of a gene's parsed variants, in file order
StarLabelsOf(gene) ==
  SelectSeq([i \in 1..Len(variantsOfGene(parsedVCF.geneVariants, gene)) |->
               variantsOfGene(parsedVCF.geneVariants, gene)[i].star_allele],
            LAMBDA l : l # "")

\* C6: when the CYP2C19 variants of the file carry the labels *2 and *17, one
\* each and in either order, the result for CLOPIDOGREL has diplotype *2/*17,
\* phenotype IM, risk_label Adjust Dosage, severity moderate, confidence 0.90.
ClopidogrelExample ==
  \A i \in 1..Len(results) :
    (results[i].drug = "CLOPIDOGREL"
       /\ StarLabelsOf("CYP2C19") \in {<<"*2", "*17">>, <<"*17", "*2">>})
      => /\ results[i].pharmacogenomic_profile.diplotype = "*2/*17"
         /\ results[i].pharmacogenomic_profile.phenotype = "IM"
         /\ results[i].risk_assessment =
              [risk_label |-> "Adjust Dosage", confidence_score |-> 90, severity |-> "moderate"]

\* the example was analysed from a file that lists *17 before *2
ClopidogrelExampleWitness ==
  /\ Len(results) = 1
  /\ results[1].drug = "CLOPIDOGREL"
  /\ StarLabelsOf("CYP2C19") = <<"*17", "*2">>
  /\ results[1].pharmacogenomic_profile.phenotype = "IM"

\* C7: when the parsed file holds no variant of a supported drug's primary
\* gene, the result for the drug has diplotype *1/*1, phenotype NM, risk_label
\* Safe and severity none.
NoVariantMeansSafe ==
  \A i \in 1..Len(results) :
    variantsOfGene(parsedVCF.geneVariants, DRUG_GENE_MAP[results[i].drug]) = <<>>
      => /\ results[i].pharmacogenomic_profile.diplotype = "*1/*1"
         /\ results[i].pharmacogenomic_profile.phenotype = "NM"
         /\ results[i].risk_assessment.risk_label = "Safe"
         /\ results[i].risk_assessment.severity = "none"

\* CODEINE was analysed from a file that has variants, none of them of CYP2D6
NoVariantMeansSafeWitness ==
  /\ Len(results) = 1
  /\ results[1].drug = "CODEINE"
  /\ parsedVCF.totalVariants > 0
  /\ variantsOfGene(parsedVCF.geneVariants, "CYP2D6") = <<>>
  /\ results[1].risk_assessment.risk_label = "Safe"

(***************************************************************************)
(* Properties of the diplotype resolver                                    *)
(***************************************************************************)

\* the star_allele values of the last resolver call, in list order
LabelsGiven == [i \in 1..Len(args.variants) |-> args.variants[i].star_allele]

\* those that are not empty
NonEmptyLabels == SelectSeq(LabelsGiven, LAMBDA s : s # "")

\* those that begin with '*'
StarLabels == SelectSeq(LabelsGiven, LAMBDA s : Len(s) >= 1 /\ CharAt(s, 1) = "*")

DistinctLabels(labels) == {labels[i] : i \in 1..Len(labels)}

\* the diplotype of a list whose labels are all the same label, or absent
SingleLabelRule(labels) ==
  IF labels = <<>> THEN "*1/*1"
  ELSE IF Len(labels) >= 2 THEN labels[1] \o "/" \o labels[1]
  ELSE IF labels[1] # "*1" THEN "*1/" \o labels[1]
  ELSE "*1/*1"

LowestRanked(a, D) == a \in D /\ \A x \in D : RankedBefore(a, x)

\* the diplotype lower/higher of the two labels of lowest rank among D
IsLowestPair(d, D) ==
  \E a \in D : \E b \in D \ {a} :
    /\ LowestRanked(a, D)
    /\ LowestRanked(b, D \ {a})
    /\ d = a \o "/" \o b

ResolverGivesTwoComponents ==
  op = "determineDiplotype" =>
    /\ Len(split(ret, "/")) = 2
    /\ split(ret, "/")[1] # ""
    /\ split(ret, "/")[2] # ""

\* C14: normalizeDiplotype applied to its own result returns that result, and
\* applied to the string determineDiplotype returned, for any variant list, it
\* returns that string.
NormalizedIsFixed ==
  /\ op = "normalizeDiplotype" => normalizeDiplotype(ret) = ret
  /\ op = "determineDiplotype" => normalizeDiplotype(ret) = ret

(***************************************************************************)
(* Properties of the VCF parser                                            *)
(***************************************************************************)

\* the lines of the text of the last parser call
LinesGiven == split(args.vcfContent, "\n")

IsHeaderLine(line) == Len(line) >= 6 /\ SubSeq(line, 1, 6) = "#CHROM"

IsMetadataLine(line) == Len(line) >= 2 /\ SubSeq(line, 1, 2) = "##"

\* C15: parseVCF returns for every text, with success true exactly when some
\* line begins with #CHROM; without such a line the result has totalVariants 0,
\* no variant and no gene.
SuccessIffHeader ==
  op = "parseVCF" =>
    /\ ret.success = (\E i \in 1..Len(LinesGiven) : IsHeaderLine(LinesGiven[i]))
    /\ (~\E i \in 1..Len(LinesGiven) : IsHeaderLine(LinesGiven[i]))
         => /\ ret.totalVariants = 0
            /\ ret.variants = <<>>
            /\ DOMAIN ret.geneVariants = {}

\* a text of data rows without header line was parsed
SuccessIffHeaderWitness ==
  /\ op = "parseVCF"
  /\ Len(LinesGiven) = MaxLines
  /\ \A i \in 1..Len(LinesGiven) : Len(split(LinesGiven[i], "\t")) = 8 /\ ~IsHeaderLine(LinesGiven[i])
  /\ ~ret.success

\* the variants of a flat sequence whose gene symbol is gene, in order
OfGene(variants, gene) == SelectSeq(variants, LAMBDA v : v.gene_symbol = gene)

RECURSIVE SumOfLengths(_, _)
SumOfLengths(geneVariants, genes) ==
  IF genes = {} THEN 0
  ELSE LET g == CHOOSE x \in genes : TRUE
       IN  Len(geneVariants[g]) + SumOfLengths(geneVariants, genes \ {g})

\* C16: in every parseVCF result the keys of the per-gene map are genes of
\* the allow-list, the sequence under a key is the flat sequence's variants of
\* that gene in file order, and totalVariants is the flat sequence's length
\* and the sum of the per-gene lengths.
GroupedByAllowedGene ==
  op = "parseVCF" =>
    /\ DOMAIN ret.geneVariants \subseteq TARGET_GENES
    /\ \A g \in DOMAIN ret.geneVariants :
         /\ \A i \in 1..Len(ret.geneVariants[g]) : ret.geneVariants[g][i].gene_symbol = g
         /\ ret.geneVariants[g] = OfGene(ret.variants, g)
    /\ ret.totalVariants = Len(ret.variants)
    /\ ret.totalVariants = SumOfLengths(ret.geneVariants, DOMAIN ret.geneVariants)

\* two genes were found, one of them written in lower case in the file
GroupedByAllowedGeneWitness ==
  /\ op = "parseVCF"
  /\ DOMAIN ret.geneVariants = {"CYP2C19", "CYP2D6"}
  /\ ret.totalVariants = 2
  /\ \E i \in 1..Len(LinesGiven) :
       LinesGiven[i] = "10\t96522463\trs12769205\tA\tG\t.\tPASS\tGENE=cyp2c19"

\* the index of the first header line of the text (0 when there is none)
FirstHeader ==
  IF \E i \in 1..Len(LinesGiven) : IsHeaderLine(LinesGiven[i])
  THEN CHOOSE i \in 1..Len(LinesGiven) :
         IsHeaderLine(LinesGiven[i]) /\ \A j \in 1..(i - 1) : ~IsHeaderLine(LinesGiven[j])
  ELSE 0

\* the column names a header line declares, left to right
DeclaredColumns(header) == split(SubSeq(header, 2, Len(header)), "\t")

\* the positions (from 1) at which a header line declares the column name
DeclaredAt(header, name) ==
  {k \in 1..Len(DeclaredColumns(header)) : toUpperCase(DeclaredColumns(header)[k]) = name}

\* the field of a row under the column the header line declares as name
FieldUnder(header, row, name) ==
  LET k == CHOOSE k \in DeclaredAt(header, name) : \A m \in DeclaredAt(header, name) : m <= k
  IN  split(row, "\t")[k]

\* the row has a field under the column the header line declares as name
ReachesColumn(header, row, name) ==
  /\ DeclaredAt(header, name) # {}
  /\ \E k \in DeclaredAt(header, name) : Len(split(row, "\t")) >= k

\* line i of the text is a row that yields a variant when read under the
\* first header line
YieldsVariant(i) ==
  /\ FirstHeader # 0
  /\ FirstHeader < i
  /\ LinesGiven[i] # ""
  /\ ~IsMetadataLine(LinesGiven[i])
  /\ ~IsHeaderLine(LinesGiven[i])
  /\ ReachesColumn(LinesGiven[FirstHeader], LinesGiven[i], "INFO")
  /\ LET annotations == parseINFO(FieldUnder(LinesGiven[FirstHeader], LinesGiven[i], "INFO"))
     IN  /\ "gene" \in DOMAIN annotations
         /\ toUpperCase(annotations["gene"]) \in TARGET_GENES

\* the indices of the lines that yield a variant, in file order
YieldingLines == SelectSeq([i \in 1..Len(LinesGiven) |-> i], YieldsVariant)

\* the gene a yielding line is annotated with, uppercased
GeneOfLine(i) ==
  toUpperCase(parseINFO(FieldUnder(LinesGiven[FirstHeader], LinesGiven[i], "INFO"))["gene"])

\* C17: the variants of the result are those of the lines that come after a
\* header line, are not empty, metadata or header lines, reach the column the
\* header declares as INFO and carry a gene of the allow-list, one variant per
\* such line in file order; every other line yields nothing and the parse goes
\* on after it.
VariantsOfQualifyingLines ==
  op = "parseVCF" =>
    /\ Len(ret.variants) = Len(YieldingLines)
    /\ \A k \in 1..Len(YieldingLines) :
         k <= Len(ret.variants) => ret.variants[k].gene_symbol = GeneOfLine(YieldingLines[k])

\* the lines of the text without the header lines that follow the first one
LinesWithoutLaterHeaders ==
  LET kept == SelectSeq([i \in 1..Len(LinesGiven) |-> i],
                        LAMBDA i : ~(IsHeaderLine(LinesGiven[i]) /\ i > FirstHeader))
  IN  [k \in 1..Len(kept) |-> LinesGiven[kept[k]]]

\* C18: every row is read under the column mapping of the first header line:
\* the result is the one the text gives without the #CHROM lines that follow
\* its first one.
FirstHeaderMapsEveryRow ==
  op = "parseVCF" => ret = parseVCF(joinLines(LinesWithoutLaterHeaders))

(***************************************************************************)
(* Properties of the explanation call                                      *)
(***************************************************************************)

ValidatedRequestIsAnswered == (pc = "loop") ~> (pc = "responded")

(***************************************************************************)
(* Properties of the analyze request                                       *)
(***************************************************************************)

\* the request at hand names no supported drug
NoSupportedDrug == pc # "idle" /\ Len(validDrugsOf(req.drugs)) = 0

\* C21: a request none of whose drug names is supported ends with status 400
\* and without result; no loop pass (diplotype, phenotype, risk, explanation)
\* is ever entered for it; and when a file and a drug list came with it, the
\* error is the one of the drug list whatever the file holds, i.e. the answer
\* is sent before the content is validated or parsed.
NoSupportedDrugIsClientError ==
  NoSupportedDrug =>
    /\ pc = "responded"
    /\ res.status = 400
    /\ results = <<>>
    /\ pending = <<>>
    /\ parsedVCF = <<>>
    /\ (~req.uploadError /\ req.file # Undefined /\ req.drugs \notin {Undefined, ""})
          => res.body = "No valid drugs specified"

\* two unsupported names were sent with a file that has no header line
NoSupportedDrugIsClientErrorWitness ==
  /\ pc = "responded"
  /\ req.drugs = "aspirin,ibuprofen"
  /\ req.file = VcfMeta
  /\ res = [status |-> 400, body |-> "No valid drugs specified"]

\* a file with a header line
StructurallyValid(file) ==
  /\ file # Undefined
  /\ \E i \in 1..Len(split(file, "\n")) : startsWith(split(file, "\n")[i], "#CHROM")

\* the supported names among the entries of the drugs field, in list order
SupportedEntries(drugField) ==
  IF drugField = Undefined THEN <<>>
  ELSE SelectSeq(drugEntries(drugField), LAMBDA d : d \in SUPPORTED_DRUGS)

\* C22: a request with a structurally valid file and at least one supported
\* drug name is answered with status 200 and one result per supported entry
\* of the list, in list order (the result itself when there is one, the list
\* otherwise); unsupported names and results of Unknown phenotype or risk
\* take nothing away.
OneResultPerSupportedDrug ==
  (pc = "responded" /\ ~req.uploadError /\ StructurallyValid(req.file)
     /\ Len(SupportedEntries(req.drugs)) > 0) =>
    /\ res.status = 200
    /\ Len(results) = Len(SupportedEntries(req.drugs))
    /\ \A i \in 1..Len(results) : results[i].drug = SupportedEntries(req.drugs)[i]
    /\ res.body = IF Len(results) = 1 THEN results[1] ELSE results

\* a list with an unsupported name in the middle, WARFARIN coming out Unknown
OneResultPerSupportedDrugWitness ==
  /\ pc = "responded"
  /\ req.drugs = "warfarin, aspirin ,simvastatin"
  /\ res.status = 200
  /\ Len(res.body) = 2
  /\ res.body[1].drug = "WARFARIN"
  /\ res.body[1].pharmacogenomic_profile.phenotype = "Unknown"
  /\ res.body[1].risk_assessment.risk_label = "Unknown"
  /\ res.body[2].drug = "SIMVASTATIN"
  /\ res.body[2].risk_assessment.risk_label = "Toxic"

(***************************************************************************)
(* Properties of the phenotype tables                                      *)
(***************************************************************************)

\* the classifier was called for SLCO1B1 with *1B/*5
StarOneBFiveClassified ==
  op = "determinePhenotypeByGene" /\ args.gene = "SLCO1B1" /\ args.diplotype = "*1B/*5"

\* C23 as stated: *1B/*5 is not in the SLCO1B1 table and is classified IM by
\* the activity scores 1 + 0 = 1.
StarOneBFiveByScore ==
  StarOneBFiveClassified =>
    /\ ret = "IM"
    /\ InNeitherOrder("SLCO1B1", "*1B/*5")
    /\ ScoreRule(SLCO1B1_ALLELE_FUNCTION, "*1B", "*5") = "IM"

\* C23: *1B/*5 is an entry of the SLCO1B1 table, the classifier returns that
\* entry, IM, and the activity scores 1 + 0 = 1 give IM as well.
StarOneBFiveByTable ==
  StarOneBFiveClassified =>
    /\ ret = "IM"
    /\ "*1B/*5" \in DOMAIN SLCO1B1_PHENOTYPE_MAP
    /\ ret = SLCO1B1_PHENOTYPE_MAP["*1B/*5"]
    /\ ScoreRule(SLCO1B1_ALLELE_FUNCTION, "*1B", "*5") = "IM"

\* the classifier was called for SLCO1B1 with *1B/*5 and returned IM
StarOneBFiveByTableWitness ==
  StarOneBFiveClassified /\ ret = "IM"

(***************************************************************************)
(* Properties of the risk engine as a whole                                *)
(***************************************************************************)

\* C24: calculateRisk and getClinicalRecommendation return for every drug
\* (a missing or empty one included), phenotype and risk label, and never
\* raise; a drug or phenotype without rule gives the risk label Unknown, a
\* risk label without action gives the action of Unknown.
RiskEngineNeverFails ==
  /\ op \notin {"calculateRisk raised", "getClinicalRecommendation raised"}
  /\ (op = "calculateRisk"
        /\ \/ trim(toUpperCase(args.drug)) \notin DOMAIN RISK_RULES
           \/ args.phenotype \notin {"PM", "IM", "NM", "RM", "UM"})
       => ret.risk_label = "Unknown"
  /\ (op = "getClinicalRecommendation" /\ args.riskLabel \notin CLINICAL_ACTIONS)
       => ret.action = [table |-> "CLINICAL_ACTIONS", key |-> "Unknown"]

(***************************************************************************)
(* Properties of the phenotype tables, continued                           *)
(***************************************************************************)

\* the allele labels that occur in a gene's table, on either side of an entry
TableAlleles(gene) ==
  UNION {{split(d, "/")[1], split(d, "/")[2]} : d \in DOMAIN GENE_PHENOTYPE_MAPS[gene]}

\* C25: for CYP2C19, CYP2D6, CYP2C9 and TPMT, every pair of alleles that
\* occur in the gene's table is classified with a phenotype other than
\* Unknown.
EnumeratedTablesAreExhaustive ==
  (op = "determinePhenotypeByGene" /\ args.gene \in FullyEnumeratedGenes /\ args.pair # <<>>
     /\ args.pair[1] \in TableAlleles(args.gene) /\ args.pair[2] \in TableAlleles(args.gene))
    => ret # "Unknown"

\* C26: for every gene of the allow-list and every diplotype argument, the
\* phenotype the classifier returns is one isValidPhenotypeForGene accepts
\* for the gene.
ClassifiedPhenotypeIsValidForGene ==
  (op = "determinePhenotypeByGene" /\ args.gene \in TARGET_GENES)
    => isValidPhenotypeForGene(args.gene, ret)

\* C27: for SLCO1B1 and DPYD, every entry of the table whose two alleles have
\* a score says what the score thresholds say (sum >= 2 NM, >= 1 IM, else PM).
ScoreModelAgreesWithTable ==
  (op = "determinePhenotypeByGene" /\ args.gene \in ScoredGenes /\ args.pair # <<>>
     /\ args.diplotype \in DOMAIN GENE_PHENOTYPE_MAPS[args.gene]
     /\ args.pair[1] \in DOMAIN AlleleFunctionOf(args.gene)
     /\ args.pair[2] \in DOMAIN AlleleFunctionOf(args.gene))
    => ScoreRule(AlleleFunctionOf(args.gene), args.pair[1], args.pair[2])
         = GENE_PHENOTYPE_MAPS[args.gene][args.diplotype]

(***************************************************************************)
(* Properties of drug names                                                *)
(***************************************************************************)

\* the three supported names of fluorouracil
FluorouracilNames == {"FLUOROURACIL", "5-FLUOROURACIL", "5-FU"}

\* a rationale without the drug name it was written for
WithoutDrugName(rationale) ==
  [k \in (DOMAIN rationale) \ {"drug"} |-> rationale[k]]

\* C28: FLUOROURACIL, 5-FLUOROURACIL and 5-FU have the same primary gene, and
\* for every phenotype each of them gets the risk assessment and, for the
\* risk label of that assessment, the action and the rationale (the drug
\* name in it apart) that the name of the call got.
FluorouracilNamesInterchangeable ==
  /\ (op \in {"calculateRisk", "getClinicalRecommendation"}
        /\ trim(toUpperCase(args.drug)) \in FluorouracilNames)
       => \A d \in FluorouracilNames : getPrimaryGene(d) = getPrimaryGene(trim(toUpperCase(args.drug)))
  /\ (op = "calculateRisk" /\ trim(toUpperCase(args.drug)) \in FluorouracilNames)
       => \A d \in FluorouracilNames : calculateRisk(d, args.phenotype) = ret
  /\ (op = "getClinicalRecommendation" /\ trim(toUpperCase(args.drug)) \in FluorouracilNames
        /\ args.riskLabel = calculateRisk(args.drug, args.phenotype).risk_label)
       => \A d \in FluorouracilNames :
            LET other == getClinicalRecommendation(args.riskLabel, d, args.phenotype)
            IN  /\ other.action = ret.action
                /\ WithoutDrugName(other.rationale) = WithoutDrugName(ret.rationale)

(***************************************************************************)
(* Properties of the analyze pipeline across files                         *)
(***************************************************************************)

\* most data rows of a file a request's file is compared with
MaxComparedRows == 2

\* the rows of such a file: two of CYP2C19, one each of CYP2D6 and SLCO1B1,
\* one of a gene outside the allow-list
ComparedRows ==
  {"10\t96541616\trs4244285\tG\tA\t.\tPASS\tGENE=CYP2C19;RS=rs4244285;STAR=*2",
   "10\t96521657\trs12248560\tC\tT\t.\tPASS\tGENE=CYP2C19;RS=rs12248560;STAR=*17",
   "22\t42524947\trs3892097\tC\tT\t.\tPASS\tGENE=CYP2D6;RS=rs3892097;STAR=*4",
   "12\t21331549\trs4149056\tT\tC\t.\tPASS\tGENE=SLCO1B1;STAR=*5",
   "17\t43044295\trs80357906\tC\tT\t.\tPASS\tGENE=BRCA1;STAR=*2"}

ComparedFiles ==
  {joinLines(<<VcfMeta, VcfHeader>> \o rows) : rows \in SeqsUpTo(ComparedRows, MaxComparedRows)}

\* what the parser makes of each of them
ParsedCompared == [f \in ComparedFiles |-> parseVCF(f)]

\* the other file lists the same variants of the gene, in the same order
AgreesOnGene(f, gene) ==
  variantsOfGene(ParsedCompared[f].geneVariants, gene)
    = variantsOfGene(parsedVCF.geneVariants, gene)

\* C29: what the pipeline computes for a drug (diplotype, phenotype, risk
\* assessment, detected variants, recommendation) is what it computes for the
\* drug from any other file that lists the same variants of the drug's
\* primary gene in the same order, whatever the two files hold for the other
\* genes.
ResultDependsOnPrimaryGeneOnly ==
  pc = "explain" =>
    \A f \in ComparedFiles :
      AgreesOnGene(f, getPrimaryGene(pending.drug))
        => assessDrug(pending.drug, ParsedCompared[f]) = pending

\* CLOPIDOGREL was assessed from a file with a CYP2C19 variant and others,
\* and a file with the same CYP2C19 variant and different others exists
ResultDependsOnPrimaryGeneOnlyWitness ==
  /\ pc = "explain"
  /\ pending.drug = "CLOPIDOGREL"
  /\ Len(variantsOfGene(parsedVCF.geneVariants, "CYP2C19")) = 1
  /\ Len(variantsOfGene(parsedVCF.geneVariants, "DPYD")) = 1
  /\ \E f \in ComparedFiles :
       /\ AgreesOnGene(f, "CYP2C19")
       /\ Len(variantsOfGene(ParsedCompared[f].geneVariants, "CYP2D6")) = 1
       /\ ParsedCompared[f].variants # parsedVCF.variants

(***************************************************************************)
(* Properties of the web client                                            *)
(***************************************************************************)

\* at most one analyze request is in flight
OneRequestInFlight == Len(inFlight) <= 1

\* C30: the results on display are those of a request that was sent with
\* the file currently held, and at most one request is in flight.
ShownResultsAreOfCurrentFile ==
  /\ resultsState # Null => resultsState = vcfFile
  /\ OneRequestInFlight

====
